---- MODULE Spec2Model ----
(***************************************************************************)
(* WhatsApp indexer: the Vector Index (EnhancedVectorStore /               *)
(* LocalVectorStore), the Lexical Store (EnhancedDatabase / Database) and  *)
(* the processes that drive them (live listener, backfill script,          *)
(* standalone MCP server).                                                 *)
(*                                                                         *)
(* Sequences are 1-based here; the JavaScript arrays are 0-based, so the   *)
(* entry at TLA+ position i has JavaScript position i - 1, and             *)
(* indexPosition keeps the JavaScript (0-based) value.                     *)
(***************************************************************************)
EXTENDS Integers, Sequences, FiniteSets, Bags, TLC

(* ------------------------------ bounds -------------------------------- *)

\* Most entries the listener's metadata array may hold before the model
\* stops delivering message events.
MaxLen == 4

\* Most rows the child tables (urls, entities, scheduling) may hold.
MaxChildRows == 6

\* Most entries of the metadata array in the Lexical Store specification.
MaxDbLen == 3

\* Messages ingested, and delete notifications handled, in the compaction
\* scenario.
ScenarioMessages == 10
ScenarioDeletes == 3

\* Most records a process adds to the history it loaded, in the
\* specification of the three processes.
MaxNew == 2

\* Message ids of the live stream, and message texts.
Ids == {1, 2}
Contents == {1, 2}

\* Message ids of the compaction scenario.
ScenarioIds == 1..ScenarioMessages

(* ------------------------- program constants -------------------------- *)

\* indexMessage persists the index when metadata.length % 10 === 0.
SavePeriod == 10

\* cleanup rebuilds when active.length < metadata.length * 0.8; kept in
\* tenths so that the comparison stays in the integers.
ActiveTenths == 8

\* searchSimilar asks FAISS for topK * 3 neighbours.
Overfetch == 3

\* Default similarity threshold 0.1, in tenths.
Threshold == 1

\* Default topK of searchSimilar.
DefaultTopK == 10

NoRow == [absent |-> TRUE]

Procs == {"listener", "backfill", "mcp"}

\* Ids of the messages ingested before the processes of the three-process
\* specification start: one short of a periodic save.
HistoryIds == (Cardinality(Ids) + 1)..(Cardinality(Ids) + SavePeriod - 1)

MessageIds == Ids \cup ScenarioIds \cup HistoryIds

(* ---------------------- Text Feature Extractor ------------------------ *)

\* The processed message of a raw message with text c: text 1 is plain
\* (no URL, no entity, no scheduling intent), text 2 carries one URL, one
\* person entity and scheduling intent.
processMessage(id, c) ==
  [ id |-> id,
    content |-> c,
    urls |-> IF c = 2 THEN {"url"} ELSE {},
    entities |-> IF c = 2 THEN {"person"} ELSE {},
    isScheduling |-> (c = 2) ]

(* --------------------------- Vector Index ----------------------------- *)

\* The embedding of a text: the model keeps the text itself as the vector.
generateEmbedding(c) == c

\* Inner product of two normalised embeddings, in tenths.
InnerProduct(q, v) == IF q = v THEN 10 ELSE 4

\* Array.prototype.findIndex on messageId: the FIRST matching position
\* (1-based), 0 when there is none (JavaScript -1).
findIndex(md, id) ==
  IF \E i \in 1..Len(md) : md[i].messageId = id
  THEN CHOOSE i \in 1..Len(md) :
         /\ md[i].messageId = id
         /\ \A j \in 1..(i - 1) : md[j].messageId # id
  ELSE 0

\* An indexMessage that overwrites the entry of an id already present, in
\* place, instead of marking it and appending.
indexMessageInPlace(st, msg) ==
  LET existingIndex == findIndex(st.metadata, msg.id)
      meta == [ messageId |-> msg.id,
                content |-> msg.content,
                deleted |-> FALSE,
                indexPosition |-> Len(st.metadata) ]
  IN IF existingIndex # 0
     THEN [st EXCEPT !.metadata[existingIndex].content = msg.content,
                     !.metadata[existingIndex].deleted = FALSE,
                     !.index[existingIndex] = generateEmbedding(msg.content)]
     ELSE [st EXCEPT !.metadata = Append(st.metadata, meta),
                     !.index = Append(st.index, generateEmbedding(msg.content))]

\* The synchronous part of indexMessage (after the embedding is there):
\* mark the found entry deleted, append the vector and the metadata.
indexMessage(st, msg) ==
  LET existingIndex == findIndex(st.metadata, msg.id)
      marked == IF existingIndex # 0
                THEN [st.metadata EXCEPT ![existingIndex].deleted = TRUE]
                ELSE st.metadata
      meta == [ messageId |-> msg.id,
                content |-> msg.content,
                deleted |-> FALSE,
                indexPosition |-> Len(st.metadata) ]
  IN [st EXCEPT !.metadata = Append(marked, meta),
                !.index = Append(st.index, generateEmbedding(msg.content))]

\* deleteMessage: mark the found entry deleted; found tells whether
\* saveIndex follows.
deleteMessage(st, id) ==
  LET i == findIndex(st.metadata, id)
  IN [ found |-> (i # 0),
       store |-> IF i # 0
                 THEN [st EXCEPT !.metadata[i].deleted = TRUE]
                 ELSE st ]

\* saveIndex: the files written from the in-memory index and metadata.
saveIndex(st) == [exists |-> TRUE, index |-> st.index, metadata |-> st.metadata]

\* loadOrCreateIndex: the in-memory state and the files after it.  A read
\* failure is caught and answered with a fresh empty index.
loadOrCreateIndex(dsk, readFails) ==
  IF readFails
  THEN [store |-> [isInitialized |-> TRUE, index |-> <<>>, metadata |-> <<>>],
        disk |-> dsk]
  ELSE IF dsk.exists
  THEN [store |-> [isInitialized |-> TRUE, index |-> dsk.index,
                   metadata |-> dsk.metadata],
        disk |-> dsk]
  ELSE [store |-> [isInitialized |-> TRUE, index |-> <<>>, metadata |-> <<>>],
        disk |-> [exists |-> TRUE, index |-> <<>>, metadata |-> <<>>]]

\* Positions (1-based) of the entries that are not deleted, in order.
RECURSIVE ActiveRefs(_, _)
ActiveRefs(md, i) ==
  IF i > Len(md) THEN <<>>
  ELSE IF md[i].deleted THEN ActiveRefs(md, i + 1)
  ELSE <<i>> \o ActiveRefs(md, i + 1)

\* A rebuild test that also fires at a deleted fraction of exactly 0.2.
NeedsRebuildAtThreshold(md) ==
  10 * Len(ActiveRefs(md, 1)) <= ActiveTenths * Len(md)

\* cleanup's test: activeMetadata.length < this.metadata.length * 0.8.
NeedsRebuild(md) ==
  10 * Len(ActiveRefs(md, 1)) < ActiveTenths * Len(md)

\* IndexFlatIP.search: the k best positions (1-based) of the index by
\* inner product, best first; equal scores in position order.
RECURSIVE TopLabels(_, _, _, _)
TopLabels(idx, q, k, taken) ==
  LET rest == (1..Len(idx)) \ taken
  IN IF k = 0 \/ rest = {} THEN <<>>
     ELSE LET best == CHOOSE i \in rest :
                        \A j \in rest :
                          \/ InnerProduct(q, idx[i]) > InnerProduct(q, idx[j])
                          \/ /\ InnerProduct(q, idx[i]) = InnerProduct(q, idx[j])
                             /\ i <= j
          IN <<best>> \o TopLabels(idx, q, k - 1, taken \cup {best})

Min(a, b) == IF a < b THEN a ELSE b

\* The loop of searchSimilar over the labels: an in-range label whose
\* score reaches the threshold and whose entry is not deleted is pushed,
\* until topK results are there.
RECURSIVE CollectResults(_, _, _, _, _, _)
CollectResults(st, q, labels, i, topK, results) ==
  IF i > Len(labels) \/ Len(results) >= topK THEN results
  ELSE LET idx == labels[i]
           score == InnerProduct(q, st.index[idx])
       IN IF idx <= Len(st.metadata) /\ score >= Threshold
             /\ ~st.metadata[idx].deleted
          THEN CollectResults(st, q, labels, i + 1, topK,
                 Append(results, [ id |-> st.metadata[idx].messageId,
                                   score |-> score,
                                   content |-> st.metadata[idx].content ]))
          ELSE CollectResults(st, q, labels, i + 1, topK, results)

\* searchSimilar(query, {topK}): the labels come best first, so the
\* closing sort by score keeps the order of the pushes.
searchSimilar(st, q, topK) ==
  CollectResults(st, q,
                 TopLabels(st.index, q, Min(topK * Overfetch, Len(st.metadata)), {}),
                 1, topK, <<>>)

(* --------------------------- Lexical Store ---------------------------- *)

\* The row INSERT OR REPLACE writes into messages.
MessageRow(msg) ==
  [ content |-> msg.content,
    has_urls |-> (msg.urls # {}),
    has_scheduling |-> msg.isScheduling ]

\* The rows one saveMessage inserts into urls, entities and scheduling.
ChildRows(msg) ==
  {[message_id |-> msg.id, table |-> "urls", value |-> msg.content] :
      u \in msg.urls}
  \cup {[message_id |-> msg.id, table |-> "entities", value |-> msg.content] :
      e \in msg.entities}
  \cup (IF msg.isScheduling
        THEN {[message_id |-> msg.id, table |-> "scheduling",
               value |-> msg.content]}
        ELSE {})

\* What may go wrong in one saveMessage: nothing, the INSERT of the message
\* row, or every INSERT into one child table.
SaveFailures == {"none", "message", "urls", "entities", "scheduling"}

\* saveMessage: INSERT OR REPLACE of the message row, then one INSERT per
\* child row, each statement committed on its own.  A failing message
\* INSERT rejects; a failing child INSERT is logged or dropped and the
\* call still resolves.
saveMessage(msgs, kids, msg, fail) ==
  IF fail = "message"
  THEN [ok |-> FALSE, messages |-> msgs, children |-> kids]
  ELSE [ok |-> TRUE,
        messages |-> [msgs EXCEPT ![msg.id] = MessageRow(msg)],
        children |-> kids (+) SetToBag({r \in ChildRows(msg) : r.table # fail})]

\* A messageExists that never finds a row.
messageExistsNever(msgs, id) == FALSE

\* messageExists: SELECT 1 FROM messages WHERE id = ?.
messageExists(msgs, id) == msgs[id] # NoRow

(* ------------------------------- state -------------------------------- *)

VARIABLES
  store,      \* per process: the vector store object (isInitialized, index, metadata)
  disk,       \* faiss.index and metadata.json
  cleanup,    \* the listener store's cleanup() call in progress
  messages,   \* table messages of the SQLite file, by id
  children,   \* tables urls, entities, scheduling: a bag of rows
  backfill,   \* the backfill script: its options and its position in processChat
  response,   \* what the last search call returned
  revoked,    \* ids whose delete notification was handled after their last ingest
  dirty,      \* a write reached the listener's index since cleanup() read it
  rebuilt,    \* sizes of the metadata array and of its active part, as the
              \* last cleanup() that went on to rebuild read them
  saved,      \* per process: its index is as its last load or saveIndex left it
  call        \* a call of one of the pure helpers: its arguments and its result

vars == <<store, disk, cleanup, messages, children, backfill, response,
          revoked, dirty, rebuilt, saved, call>>

NewStore == [isInitialized |-> FALSE, index |-> <<>>, metadata |-> <<>>]

NoFiles == [exists |-> FALSE, index |-> <<>>, metadata |-> <<>>]

CleanupIdle ==
  [ pc |-> "idle", activeMetadata |-> <<>>, cursor |-> 0,
    newIndex |-> <<>>, newMetadata |-> <<>> ]

NoResponse == [by |-> "none", status |-> "none", results |-> <<>>]

NeverRebuilt == [total |-> 0, active |-> 0]

\* The backfill script between chats: seen holds the ids of the chat's
\* fetched messages the loop has passed, newCount is processChat's count of
\* new messages.
BackfillIdle == [pc |-> "idle", dryRun |-> FALSE, seen |-> {}, newCount |-> 0]

NoCall == [op |-> "none"]

\* After construction of every process, before any initialize().
Init ==
  /\ store = [p \in Procs |-> NewStore]
  /\ disk = NoFiles
  /\ cleanup = CleanupIdle
  /\ messages = [id \in MessageIds |-> NoRow]
  /\ children = EmptyBag
  /\ backfill = BackfillIdle
  /\ response = NoResponse
  /\ revoked = {}
  /\ dirty = FALSE
  /\ rebuilt = NeverRebuilt
  /\ saved = [p \in Procs |-> TRUE]
  /\ call = NoCall

(* ------------------------------ listener ------------------------------ *)

\* vectorStore.initialize() of process p.
Initialize(p, readFails) ==
  /\ UNCHANGED call
  /\ ~store[p].isInitialized
  /\ LET r == loadOrCreateIndex(disk, readFails)
     IN /\ store' = [store EXCEPT ![p] = r.store]
        /\ disk' = r.disk
  /\ saved' = [saved EXCEPT ![p] = ~readFails]
  /\ response' = NoResponse
  /\ UNCHANGED <<cleanup, messages, children, backfill, revoked, dirty,
                 rebuilt>>

\* What may go wrong in one handleMessage: a saveMessage failure, or the
\* embedding model throwing inside indexMessage.
HandleFailures == SaveFailures \cup {"embedding"}

\* The store and the files after process p's indexMessage(msg) returned.
IndexAndSave(p, msg) ==
  LET st == indexMessage(store[p], msg)
      periodic == (Len(st.metadata) % SavePeriod = 0)
  IN /\ store' = [store EXCEPT ![p] = st]
     /\ disk' = IF periodic THEN saveIndex(st) ELSE disk
     /\ saved' = [saved EXCEPT ![p] = periodic]

\* handleMessage of the live client, for 'message' and 'message_edit':
\* saveMessage, then indexMessage; an error of either is caught and logged.
HandleMessage(id, c, fail) ==
  /\ UNCHANGED call
  /\ store["listener"].isInitialized
  /\ LET msg == processMessage(id, c)
         r == saveMessage(messages, children, msg, fail)
     IN /\ BagCardinality(r.children) <= MaxChildRows
        /\ messages' = r.messages
        /\ children' = r.children
        /\ IF r.ok /\ fail # "embedding"
           THEN /\ IndexAndSave("listener", msg)
                /\ revoked' = revoked \ {id}
                /\ dirty' = (dirty \/ cleanup.pc = "await")
           ELSE UNCHANGED <<store, disk, saved, revoked, dirty>>
  /\ response' = NoResponse
  /\ UNCHANGED <<cleanup, backfill, rebuilt>>

\* The 'message_revoke_everyone' handler: vectorStore.deleteMessage only.
MessageRevoke(id) ==
  /\ UNCHANGED call
  /\ store["listener"].isInitialized
  /\ LET r == deleteMessage(store["listener"], id)
     IN /\ store' = [store EXCEPT !["listener"] = r.store]
        /\ disk' = IF r.found THEN saveIndex(r.store) ELSE disk
        /\ saved' = IF r.found THEN [saved EXCEPT !["listener"] = TRUE]
                    ELSE saved
        /\ dirty' = (dirty \/ (r.found /\ cleanup.pc = "await"))
  /\ revoked' = revoked \cup {id}
  /\ response' = NoResponse
  /\ UNCHANGED <<cleanup, messages, children, backfill, rebuilt>>

\* searchMessages of the live client: searchSimilar on its own store.
Search(q, topK) ==
  /\ UNCHANGED call
  /\ store["listener"].isInitialized
  /\ response' = [by |-> "listener", status |-> "ok",
                  results |-> searchSimilar(store["listener"], q, topK)]
  /\ UNCHANGED <<store, disk, cleanup, messages, children, backfill,
                 revoked, dirty, rebuilt, saved>>

(* ------------------------------ cleanup ------------------------------- *)

\* The first position at or after i of the active list whose entry is not
\* deleted now; Len + 1 when there is none.
RECURSIVE NextToEmbed(_, _, _)
NextToEmbed(md, active, i) ==
  IF i > Len(active) THEN i
  ELSE IF md[active[i]].deleted THEN NextToEmbed(md, active, i + 1)
  ELSE i

\* The end of cleanup(): this.index = newIndex; this.metadata = newMetadata;
\* saveIndex().  newMetadata holds the very objects of the old array.
SwapIn(md, newIndex, newMetadata) ==
  LET st == [ isInitialized |-> TRUE,
              index |-> newIndex,
              metadata |-> [i \in 1..Len(newMetadata) |-> md[newMetadata[i]]] ]
  IN /\ store' = [store EXCEPT !["listener"] = st]
     /\ disk' = saveIndex(st)
     /\ saved' = [saved EXCEPT !["listener"] = TRUE]
     /\ cleanup' = CleanupIdle

\* cleanup() up to its first await: filter the active entries, test the
\* threshold, and enter the loop.
CleanupBegin ==
  /\ UNCHANGED call
  /\ store["listener"].isInitialized
  /\ cleanup.pc = "idle"
  /\ NeedsRebuild(store["listener"].metadata)
  /\ LET md == store["listener"].metadata
         active == ActiveRefs(md, 1)
     IN IF active = <<>>
        THEN SwapIn(md, <<>>, <<>>)
        ELSE /\ cleanup' = [ pc |-> "await", activeMetadata |-> active,
                             cursor |-> 1, newIndex |-> <<>>,
                             newMetadata |-> <<>> ]
             /\ UNCHANGED <<store, disk, saved>>
  /\ rebuilt' = [ total |-> Len(store["listener"].metadata),
                  active |-> Len(ActiveRefs(store["listener"].metadata, 1)) ]
  /\ dirty' = FALSE
  /\ response' = NoResponse
  /\ UNCHANGED <<messages, children, backfill, revoked>>

\* cleanup() from one await of generateEmbedding to the next, or to its
\* end: add the awaited entry, skip the entries deleted meanwhile, and
\* either await the next embedding or swap the rebuilt arrays in.  A
\* throwing embedder ends the call where it stands.
CleanupResume(embedded) ==
  /\ UNCHANGED call
  /\ cleanup.pc = "await"
  /\ IF ~embedded
     THEN /\ cleanup' = CleanupIdle
          /\ UNCHANGED <<store, disk, saved>>
     ELSE LET st == store["listener"]
              ref == cleanup.activeMetadata[cleanup.cursor]
              md == [st.metadata EXCEPT
                       ![ref].indexPosition = Len(cleanup.newMetadata)]
              newIndex == Append(cleanup.newIndex,
                                 generateEmbedding(md[ref].content))
              newMetadata == Append(cleanup.newMetadata, ref)
              next == NextToEmbed(md, cleanup.activeMetadata,
                                  cleanup.cursor + 1)
          IN IF next <= Len(cleanup.activeMetadata)
             THEN /\ store' = [store EXCEPT !["listener"].metadata = md]
                  /\ cleanup' = [cleanup EXCEPT !.cursor = next,
                                                !.newIndex = newIndex,
                                                !.newMetadata = newMetadata]
                  /\ UNCHANGED <<disk, saved>>
             ELSE SwapIn(md, newIndex, newMetadata)
  /\ response' = NoResponse
  /\ UNCHANGED <<messages, children, backfill, revoked, dirty, rebuilt>>

(* ------------------------------ backfill ------------------------------ *)

\* processChat up to the fetch: a chat that already has rows in the date
\* range is skipped unless --force is given.
BackfillBeginChat(force, dryRun) ==
  /\ UNCHANGED call
  /\ store["backfill"].isInitialized
  /\ backfill.pc = "idle"
  /\ force \/ \A id \in Ids : ~messageExists(messages, id)
  /\ backfill' = [pc |-> "chat", dryRun |-> dryRun, seen |-> {},
                  newCount |-> 0]
  /\ response' = NoResponse
  /\ UNCHANGED <<store, disk, cleanup, messages, children, revoked, dirty,
                 rebuilt, saved>>

\* A turn of processChat's loop that saves and indexes whatever the
\* options say.
BackfillMessageIgnoringDryRun(id, c, fail) ==
  /\ UNCHANGED call
  /\ backfill.pc = "chat"
  /\ id \notin backfill.seen
  /\ IF messageExists(messages, id)
     THEN /\ backfill' = [backfill EXCEPT !.seen = @ \cup {id}]
          /\ UNCHANGED <<store, disk, messages, children, saved>>
     ELSE LET msg == processMessage(id, c)
              r == saveMessage(messages, children, msg, fail)
          IN /\ BagCardinality(r.children) <= MaxChildRows
             /\ messages' = r.messages
             /\ children' = r.children
             /\ IF r.ok /\ fail # "embedding"
                THEN /\ IndexAndSave("backfill", msg)
                     /\ backfill' = [backfill EXCEPT !.seen = @ \cup {id},
                                                     !.newCount = @ + 1]
                ELSE /\ backfill' = [backfill EXCEPT !.seen = @ \cup {id}]
                     /\ UNCHANGED <<store, disk, saved>>
  /\ response' = NoResponse
  /\ UNCHANGED <<cleanup, revoked, dirty, rebuilt>>

\* One turn of processChat's loop over the fetched messages, which hold
\* each id once: skip a stored id; otherwise count the message as new and,
\* unless --dry-run, saveMessage and indexMessage first (an error of
\* either is caught, and the message is not counted).
BackfillMessage(id, c, fail) ==
  /\ UNCHANGED call
  /\ backfill.pc = "chat"
  /\ id \notin backfill.seen
  /\ IF messageExists(messages, id)
     THEN /\ backfill' = [backfill EXCEPT !.seen = @ \cup {id}]
          /\ UNCHANGED <<store, disk, messages, children, saved>>
     ELSE IF backfill.dryRun
     THEN /\ backfill' = [backfill EXCEPT !.seen = @ \cup {id},
                                          !.newCount = @ + 1]
          /\ UNCHANGED <<store, disk, messages, children, saved>>
     ELSE LET msg == processMessage(id, c)
              r == saveMessage(messages, children, msg, fail)
          IN /\ BagCardinality(r.children) <= MaxChildRows
             /\ messages' = r.messages
             /\ children' = r.children
             /\ IF r.ok /\ fail # "embedding"
                THEN /\ IndexAndSave("backfill", msg)
                     /\ backfill' = [backfill EXCEPT !.seen = @ \cup {id},
                                                     !.newCount = @ + 1]
                ELSE /\ backfill' = [backfill EXCEPT !.seen = @ \cup {id}]
                     /\ UNCHANGED <<store, disk, saved>>
  /\ response' = NoResponse
  /\ UNCHANGED <<cleanup, revoked, dirty, rebuilt>>

\* The loop of processChat ends.
BackfillEndChat ==
  /\ UNCHANGED call
  /\ backfill.pc = "chat"
  /\ backfill' = BackfillIdle
  /\ response' = NoResponse
  /\ UNCHANGED <<store, disk, cleanup, messages, children, revoked, dirty,
                 rebuilt, saved>>

\* shutdown() of the backfill script, at the end of main or on SIGINT:
\* client.destroy() and database.close(), then the process exits.
BackfillShutdown ==
  /\ UNCHANGED call
  /\ store["backfill"].isInitialized
  /\ backfill.pc # "exited"
  /\ backfill' = [backfill EXCEPT !.pc = "exited"]
  /\ response' = NoResponse
  /\ UNCHANGED <<store, disk, cleanup, messages, children, revoked, dirty,
                 rebuilt, saved>>

(* ----------------------------- MCP server ----------------------------- *)

\* The standalone server's CallTool handler for search_messages: a fixed
\* text before initialize() has finished, else searchSimilar on the store
\* the server loaded at its start, with topK = limit * 2, cut to limit.
McpSearchMessages(q, limit) ==
  /\ UNCHANGED call
  /\ response' =
       IF ~store["mcp"].isInitialized
       THEN [by |-> "mcp", status |-> "not initialized", results |-> <<>>]
       ELSE LET found == searchSimilar(store["mcp"], q, limit * 2)
            IN [by |-> "mcp", status |-> "ok",
                results |-> SubSeq(found, 1, Min(limit, Len(found)))]
  /\ UNCHANGED <<store, disk, cleanup, messages, children, backfill,
                 revoked, dirty, rebuilt, saved>>

(* --------------------------- specifications --------------------------- *)

TopKs == {1, DefaultTopK}

\* The live listener: plain-text messages and edits, delete notifications,
\* searches, and cleanup() of its store.
Next ==
  \/ Initialize("listener", FALSE)
  \/ \E id \in Ids, fail \in {"none", "message", "embedding"} :
       /\ Len(store["listener"].metadata) < MaxLen
       /\ HandleMessage(id, 1, fail)
  \/ \E id \in Ids : MessageRevoke(id)
  \/ \E q \in Contents, topK \in TopKs : Search(q, topK)
  \/ CleanupBegin
  \/ \E embedded \in BOOLEAN : CleanupResume(embedded)

Spec == Init /\ [][Next]_vars

\* The Lexical Store under the listener: every text and every failure.
NextDb ==
  \/ Initialize("listener", FALSE)
  \/ \E id \in Ids, c \in Contents, fail \in HandleFailures :
       /\ Len(store["listener"].metadata) < MaxDbLen
       /\ HandleMessage(id, c, fail)
  \/ \E id \in Ids : MessageRevoke(id)

SpecDb == Init /\ [][NextDb]_vars

\* The compaction scenario: the messages of ScenarioIds arrive in order,
\* none while cleanup() runs; at most ScenarioDeletes of them are revoked,
\* at any moment; cleanup() is called once, at any moment.
NextCompact ==
  \/ Initialize("listener", FALSE)
  \/ \E id \in ScenarioIds :
       /\ cleanup.pc = "idle"
       /\ \A k \in ScenarioIds : messageExists(messages, k) <=> k < id
       /\ HandleMessage(id, 1, "none")
  \/ \E id \in ScenarioIds :
       /\ messageExists(messages, id)
       /\ id \notin revoked
       /\ Cardinality(revoked) < ScenarioDeletes
       /\ MessageRevoke(id)
  \/ rebuilt = NeverRebuilt /\ CleanupBegin
  \/ \E embedded \in BOOLEAN : CleanupResume(embedded)

SpecCompact == Init /\ [][NextCompact]_vars

\* The live listener with an embedding model that works inside cleanup().
NextFair ==
  \/ Initialize("listener", FALSE)
  \/ \E id \in Ids, fail \in {"none", "message", "embedding"} :
       /\ Len(store["listener"].metadata) < MaxLen
       /\ HandleMessage(id, 1, fail)
  \/ \E id \in Ids : MessageRevoke(id)
  \/ \E q \in Contents, topK \in TopKs : Search(q, topK)
  \/ CleanupBegin
  \/ CleanupResume(TRUE)

\* What the runtime guarantees: initialize() runs at start, and a cleanup()
\* that awaits an embedding is resumed.  Nothing in the repository calls
\* cleanup(), and message events come from outside, so neither is fair.
FairSpec ==
  /\ Init
  /\ [][NextFair]_vars
  /\ WF_vars(Initialize("listener", FALSE))
  /\ WF_vars(CleanupResume(TRUE))

\* The index and metadata files, and the rows, left by a listener that
\* ingested the messages of HistoryIds and then handled the delete
\* notification of the first of them (which saved the index).
History ==
  [ i \in 1..(SavePeriod - 1) |->
      [ messageId |-> Cardinality(Ids) + i,
        content |-> 1,
        deleted |-> (i = 1),
        indexPosition |-> i - 1 ] ]

InitProcs ==
  /\ store = [p \in Procs |-> NewStore]
  /\ disk = [ exists |-> TRUE,
              index |-> [i \in 1..Len(History) |-> generateEmbedding(1)],
              metadata |-> History ]
  /\ cleanup = CleanupIdle
  /\ messages = [ id \in MessageIds |->
                    IF id \in HistoryIds
                    THEN MessageRow(processMessage(id, 1))
                    ELSE NoRow ]
  /\ children = EmptyBag
  /\ backfill = BackfillIdle
  /\ response = NoResponse
  /\ revoked = {History[1].messageId}
  /\ dirty = FALSE
  /\ rebuilt = NeverRebuilt
  /\ saved = [p \in Procs |-> TRUE]
  /\ call = NoCall

\* The listener, the backfill script and the standalone MCP server, each
\* a process of its own over the same files.
NextProcs ==
  \/ \E p \in Procs : Initialize(p, FALSE)
  \/ \E id \in Ids, fail \in {"none", "message"} :
       /\ Len(store["listener"].metadata) < Len(History) + MaxNew
       /\ HandleMessage(id, 1, fail)
  \/ \E id \in Ids : MessageRevoke(id)
  \/ \E force \in BOOLEAN, dryRun \in BOOLEAN : BackfillBeginChat(force, dryRun)
  \/ \E id \in Ids, fail \in {"none", "message"} :
       /\ Len(store["backfill"].metadata) < Len(History) + MaxNew
       /\ BackfillMessage(id, 1, fail)
  \/ BackfillEndChat
  \/ BackfillShutdown
  \/ \E limit \in TopKs : McpSearchMessages(1, limit)

SpecProcs == InitProcs /\ [][NextProcs]_vars

(* ------------------------------- claims ------------------------------- *)

Metadata == store["listener"].metadata

LiveCopies(md, id) ==
  {i \in 1..Len(md) : md[i].messageId = id /\ ~md[i].deleted}

\* C1: after any sequence of ingests, edits, deletes and cleanups, every
\* message id has at most one record of the Vector Index whose deleted flag
\* is false.
C1_AtMostOneLiveRecord ==
  \A id \in Ids : Cardinality(LiveCopies(Metadata, id)) <= 1

\* C2: once the delete notification of message id m has been handled, and
\* until m is ingested again, no search returns a result whose id is m.
C2_RevokedNeverReturned ==
  response.status = "ok" =>
    \A i \in 1..Len(response.results) : response.results[i].id \notin revoked

RowsOf(id) == {r \in BagToSet(children) : r.message_id = id}

LatestChildRows(id) == ChildRows(processMessage(id, messages[id].content))

\* C3: the child rows stored for an id are those of its latest save: none
\* is left over from an earlier save and none is stored twice.
C3_NoStaleOrDuplicateChild ==
  \A id \in Ids :
    messages[id] # NoRow =>
      \A r \in RowsOf(id) :
        r \in LatestChildRows(id) /\ CopiesIn(r, children) = 1

\* C4: a save is atomic: a message row is stored only together with every
\* child row of that save.
C4_RowImpliesChildren ==
  \A id \in Ids :
    messages[id] # NoRow =>
      \A r \in LatestChildRows(id) : CopiesIn(r, children) >= 1

\* The step of cleanup() that swaps the rebuilt index and metadata in.
CleanupSwap ==
  \/ CleanupBegin /\ cleanup'.pc = "idle"
  \/ CleanupResume(TRUE) /\ cleanup'.pc = "idle"

\* C5: no write takes effect between cleanup's read and its swap, so every
\* live record the index holds when the swap happens is there after it.
C5_SwapKeepsLiveRecords ==
  [][CleanupSwap =>
       \A i \in 1..Len(Metadata) :
         ~Metadata[i].deleted =>
           \E j \in 1..Len(Metadata') :
             /\ Metadata'[j].messageId = Metadata[i].messageId
             /\ Metadata'[j].content = Metadata[i].content
             /\ ~Metadata'[j].deleted]_vars

\* C8: handling a delete notification tags the stored lexical row of the
\* message, so that the row of a deleted message differs from the row the
\* message had while it was live.
C8_RevokeTagsLexicalRow ==
  [][\A id \in Ids :
       (id \notin revoked /\ id \in revoked' /\ messages[id] # NoRow) =>
         (messages'[id] # NoRow /\ messages'[id] # messages[id])]_vars

HasRecord(md, id) == \E i \in 1..Len(md) : md[i].messageId = id

\* C6: read-your-writes: when the MCP server answers search_messages, the
\* Lexical Store and the Vector Index it reads hold every message whose
\* saveMessage and indexMessage have returned in the listener.
C6_McpReadsListenerWrites ==
  (response.by = "mcp" /\ response.status = "ok") =>
    \A id \in Ids :
      (messageExists(messages, id) /\ LiveCopies(Metadata, id) # {}) =>
        /\ messageExists(messages, id)
        /\ LiveCopies(store["mcp"].metadata, id) # {}

\* C7: backfill beside the live indexer: once both processes have persisted
\* their state, the persisted index holds the records of each and the
\* database the rows of each.
C7_PersistedIndexHasBoth ==
  (/\ store["listener"].isInitialized /\ saved["listener"]
   /\ store["backfill"].isInitialized /\ saved["backfill"]) =>
    \A p \in {"listener", "backfill"} :
      \A i \in 1..Len(store[p].metadata) :
        /\ HasRecord(disk.metadata, store[p].metadata[i].messageId)
        /\ messageExists(messages, store[p].metadata[i].messageId)

DeletedCount(md) == Cardinality({i \in 1..Len(md) : md[i].deleted})

\* The deleted fraction exceeds 0.2.
DeletedFractionExceeded(md) == 10 * DeletedCount(md) > 2 * Len(md)

\* The position in md of its j-th entry that is not deleted.
NthLive(md, j) ==
  CHOOSE k \in 1..Len(md) :
    /\ ~md[k].deleted
    /\ Cardinality({i \in 1..k : ~md[i].deleted}) = j

DeletedOverThreshold ==
  store["listener"].isInitialized /\ DeletedFractionExceeded(Metadata)

NoDeletedRecord == DeletedCount(Metadata) = 0

\* C10: whenever the deleted fraction of the Vector Index exceeds 20%,
\* compaction eventually runs and no soft-deleted record is left in it.
C10_CompactionEventuallyRuns == DeletedOverThreshold ~> NoDeletedRecord

\* C11: at every point a reader or writer can observe, the index and the
\* metadata array have the same length and the entry at array position i
\* (counted from 0) has indexPosition = i.
C11_PositionsMatchArray ==
  /\ Len(store["listener"].index) = Len(Metadata)
  /\ \A i \in 1..Len(Metadata) : Metadata[i].indexPosition = i - 1

RecordsOf(md, id) == {i \in 1..Len(md) : md[i].messageId = id}

\* C12: ingesting a message a second time with identical content leaves
\* exactly one lexical row of its id, unchanged, and exactly two vector
\* records of its id: the first soft-deleted, the second live.
C12_DuplicateIngest ==
  [][\A id \in Ids, c \in Contents :
       ( /\ messages[id] = MessageRow(processMessage(id, c))
         /\ \E i \in 1..Len(Metadata) :
              /\ RecordsOf(Metadata, id) = {i}
              /\ ~Metadata[i].deleted
              /\ Metadata[i].content = c
         /\ HandleMessage(id, c, "none") )
       => /\ messages'[id] = messages[id]
          /\ \E i, j \in 1..Len(Metadata') :
               /\ i < j
               /\ RecordsOf(Metadata', id) = {i, j}
               /\ Metadata'[i].deleted /\ Metadata'[i].content = c
               /\ ~Metadata'[j].deleted /\ Metadata'[j].content = c]_vars

\* C12, reached: an id with one row and two records of the same content,
\* the first soft-deleted and the second live.
C12_IngestedTwice ==
  \E id \in Ids, c \in Contents :
    /\ messages[id] = MessageRow(processMessage(id, c))
    /\ \E i, j \in 1..Len(Metadata) :
         /\ i < j
         /\ RecordsOf(Metadata, id) = {i, j}
         /\ Metadata[i].deleted /\ Metadata[i].content = c
         /\ ~Metadata[j].deleted /\ Metadata[j].content = c

(* ------------------------ hybrid search merge ------------------------- *)

\* Most results in each of the two lists handed to combineSearchResults.
MaxResults == 2

\* Ids and similarity scores (in tenths) of search results.
MergeIds == {1, 2, 3}
Scores == {5, 9}

\* The timestamp of a message: the ids are numbered in order of sending.
MessageTimestamp(id) == id

\* Map.prototype.set on the id: the value of a key already present is
\* replaced where it stands, a new key goes to the end.
MapSet(map, value) ==
  IF \E i \in 1..Len(map) : map[i].id = value.id
  THEN [map EXCEPT ![CHOOSE i \in 1..Len(map) : map[i].id = value.id] = value]
  ELSE Append(map, value)

\* vectorResults.forEach: each result with source 'vector' and its score
\* as relevanceScore.
RECURSIVE AddVectorResults(_, _, _)
AddVectorResults(vectorResults, i, map) ==
  IF i > Len(vectorResults) THEN map
  ELSE AddVectorResults(vectorResults, i + 1,
         MapSet(map, [ id |-> vectorResults[i].id,
                       source |-> "vector",
                       relevanceScore |-> vectorResults[i].score,
                       timestamp |-> vectorResults[i].timestamp,
                       content |-> vectorResults[i].content ]))

\* dbResults.forEach: {...existing, ...result, source: 'both'} for an id
\* in the map, else the row with source 'database' and relevanceScore 0.
RECURSIVE AddDbResults(_, _, _)
AddDbResults(dbResults, i, map) ==
  IF i > Len(dbResults) THEN map
  ELSE LET result == dbResults[i]
           found == {k \in 1..Len(map) : map[k].id = result.id}
           value == IF found # {}
                    THEN [ map[CHOOSE k \in found : TRUE] EXCEPT
                             !.timestamp = result.timestamp,
                             !.content = result.content,
                             !.source = "both" ]
                    ELSE [ id |-> result.id,
                           source |-> "database",
                           relevanceScore |-> 0,
                           timestamp |-> result.timestamp,
                           content |-> result.content ]
       IN AddDbResults(dbResults, i + 1, MapSet(map, value))

\* Array.prototype.sort with (a, b) => b.relevanceScore - a.relevanceScore:
\* stable, so equal scores keep their order.
RECURSIVE SortByRelevance(_, _, _)
SortByRelevance(values, i, sorted) ==
  IF i > Len(values) THEN sorted
  ELSE LET k == Cardinality({j \in 1..Len(sorted) :
                   sorted[j].relevanceScore >= values[i].relevanceScore})
       IN SortByRelevance(values, i + 1,
            SubSeq(sorted, 1, k) \o <<values[i]>>
              \o SubSeq(sorted, k + 1, Len(sorted)))

\* A merge in which the fields of the vector result win over the row's.
combineVectorFieldsWin(vectorResults, dbResults) ==
  LET map == AddVectorResults(vectorResults, 1, <<>>)
      rows == [ i \in 1..Len(dbResults) |->
                  IF \E k \in 1..Len(map) : map[k].id = dbResults[i].id
                  THEN LET e == map[CHOOSE k \in 1..Len(map) :
                                      map[k].id = dbResults[i].id]
                       IN [ id |-> e.id, timestamp |-> e.timestamp,
                            content |-> e.content ]
                  ELSE dbResults[i] ]
  IN SortByRelevance(AddDbResults(rows, 1, map), 1, <<>>)

\* combineSearchResults(vectorResults, dbResults).
combineSearchResults(vectorResults, dbResults) ==
  SortByRelevance(
    AddDbResults(dbResults, 1, AddVectorResults(vectorResults, 1, <<>>)),
    1, <<>>)

SeqsUpTo(S, n) == UNION {[1..k -> S] : k \in 0..n}

UniqueIds(rs) ==
  \A i \in 1..Len(rs), j \in 1..Len(rs) : rs[i].id = rs[j].id => i = j

\* What searchSimilar returns: one result per id, best score first.
VectorResultLists ==
  { v \in SeqsUpTo({ [ id |-> id, score |-> s,
                         timestamp |-> MessageTimestamp(id), content |-> c ] :
                       id \in MergeIds, s \in Scores, c \in Contents },
                     MaxResults) :
      /\ UniqueIds(v)
      /\ \A i \in 1..(Len(v) - 1) : v[i].score >= v[i + 1].score }

\* What database.searchMessages returns: GROUP BY m.id ORDER BY
\* m.timestamp DESC.
DbResultLists ==
  { d \in SeqsUpTo({ [ id |-> id, timestamp |-> MessageTimestamp(id),
                         content |-> c ] :
                       id \in MergeIds, c \in Contents },
                     MaxResults) :
      /\ UniqueIds(d)
      /\ \A i \in 1..(Len(d) - 1) : d[i].timestamp >= d[i + 1].timestamp }

\* No process has started.
NoProcess ==
  /\ store = [p \in Procs |-> NewStore]
  /\ disk = NoFiles
  /\ cleanup = CleanupIdle
  /\ messages = [id \in MessageIds |-> NoRow]
  /\ children = EmptyBag
  /\ backfill = BackfillIdle
  /\ response = NoResponse
  /\ revoked = {}
  /\ dirty = FALSE
  /\ rebuilt = NeverRebuilt
  /\ saved = [p \in Procs |-> TRUE]

InitMerge ==
  /\ NoProcess
  /\ call \in { [ op |-> "combineSearchResults", vectorResults |-> v,
                  dbResults |-> d, done |-> FALSE, results |-> <<>> ] :
                v \in VectorResultLists, d \in DbResultLists }

\* One call of combineSearchResults on the drawn lists.
CombineSearchResults ==
  /\ call.op = "combineSearchResults"
  /\ ~call.done
  /\ call' = [call EXCEPT
                !.done = TRUE,
                !.results = combineSearchResults(call.vectorResults,
                                                 call.dbResults)]
  /\ UNCHANGED <<store, disk, cleanup, messages, children, backfill,
                 response, revoked, dirty, rebuilt, saved>>

NextMerge == CombineSearchResults

SpecMerge == InitMerge /\ [][NextMerge]_vars

Merged == call.op = "combineSearchResults" /\ call.done

\* C13: merge returns its results in descending relevance score, and two
\* results of equal relevance score in descending timestamp order.
C13_MergeOrder ==
  Merged =>
    \A i \in 1..(Len(call.results) - 1) :
      \/ call.results[i].relevanceScore > call.results[i + 1].relevanceScore
      \/ /\ call.results[i].relevanceScore = call.results[i + 1].relevanceScore
         /\ call.results[i].timestamp >= call.results[i + 1].timestamp

IdsIn(rs) == {rs[i].id : i \in 1..Len(rs)}

ResultOf(rs, id) == rs[CHOOSE i \in 1..Len(rs) : rs[i].id = id]

\* C14: the merge holds each id of either input exactly once: source both
\* with the vector score and the row's fields for an id in both inputs,
\* source vector with its score for an id in the vector input only, and
\* source database with relevance 0 for an id in the lexical input only.
C14_MergeTagsSources ==
  Merged =>
    LET v == call.vectorResults
        d == call.dbResults
        r == call.results
    IN /\ IdsIn(r) = IdsIn(v) \cup IdsIn(d)
       /\ Len(r) = Cardinality(IdsIn(r))
       /\ \A id \in IdsIn(r) :
            LET e == ResultOf(r, id)
            IN IF id \in IdsIn(v) /\ id \in IdsIn(d)
               THEN /\ e.source = "both"
                    /\ e.relevanceScore = ResultOf(v, id).score
                    /\ e.content = ResultOf(d, id).content
                    /\ e.timestamp = ResultOf(d, id).timestamp
               ELSE IF id \in IdsIn(v)
               THEN /\ e.source = "vector"
                    /\ e.relevanceScore = ResultOf(v, id).score
                    /\ e.content = ResultOf(v, id).content
                    /\ e.timestamp = ResultOf(v, id).timestamp
               ELSE /\ e.source = "database"
                    /\ e.relevanceScore = 0
                    /\ e.content = ResultOf(d, id).content
                    /\ e.timestamp = ResultOf(d, id).timestamp

\* C14, reached: a merge with an id in both inputs whose row differs from
\* the vector result's fields, an id in the vector input only and an id in
\* the lexical input only.
C14_AllThreeSources ==
  /\ Merged
  /\ \E a, b, c \in MergeIds :
       /\ a \in IdsIn(call.vectorResults) /\ a \in IdsIn(call.dbResults)
       /\ ResultOf(call.vectorResults, a).content
            # ResultOf(call.dbResults, a).content
       /\ b \in IdsIn(call.vectorResults) /\ b \notin IdsIn(call.dbResults)
       /\ c \notin IdsIn(call.vectorResults) /\ c \in IdsIn(call.dbResults)
       /\ ResultOf(call.results, a).source = "both"
       /\ ResultOf(call.results, b).source = "vector"
       /\ ResultOf(call.results, c).source = "database"

(* ------------------------- claims on backfill ------------------------- *)

\* A step of the backfill script.
BackfillStep ==
  \/ \E force \in BOOLEAN, dryRun \in BOOLEAN : BackfillBeginChat(force, dryRun)
  \/ \E id \in Ids, c \in Contents, fail \in HandleFailures :
       BackfillMessage(id, c, fail)
  \/ BackfillEndChat
  \/ BackfillShutdown

\* C15: a backfill in dry-run mode makes no write: no step of it changes
\* the rows of the Lexical Store (so their count), the script's Vector
\* Index (so its size) or the index files.
C15_DryRunWritesNothing ==
  [][(BackfillStep /\ backfill.dryRun) =>
       /\ messages' = messages
       /\ children' = children
       /\ store'["backfill"] = store["backfill"]
       /\ disk' = disk]_vars

\* C15, reached: a dry run has counted a message as new that is neither
\* stored nor indexed.
C15_DryRunCountedNew ==
  /\ backfill.pc = "chat"
  /\ backfill.dryRun
  /\ backfill.newCount > 0
  /\ \E id \in backfill.seen :
       /\ messages[id] = NoRow
       /\ ~HasRecord(store["backfill"].metadata, id)

\* C16: a second run skips every message whose id is stored: the turn of
\* the loop for such a message adds no row and no vector record and
\* counts nothing as new.
C16_StoredIdSkipped ==
  [][\A id \in Ids :
       ( /\ messages[id] # NoRow
         /\ \E c \in Contents, fail \in HandleFailures :
              BackfillMessage(id, c, fail) )
       => /\ messages' = messages
          /\ children' = children
          /\ store' = store
          /\ disk' = disk
          /\ backfill'.newCount = backfill.newCount]_vars

\* C16, reached: the script indexed a message in one pass over the chat
\* and, in a later pass that is not a dry run, has passed it again with
\* nothing counted as new and still one record of it.
C16_SecondPassSkipped ==
  /\ backfill.pc = "chat"
  /\ ~backfill.dryRun
  /\ backfill.newCount = 0
  /\ \E id \in backfill.seen :
       /\ messages[id] # NoRow
       /\ Cardinality(RecordsOf(store["backfill"].metadata, id)) = 1

\* C17: when shutdown() of the backfill script has completed, every
\* message the run has indexed is in the database and in the persisted
\* vector index.
C17_ShutdownPersists ==
  backfill.pc = "exited" =>
    \A i \in 1..Len(store["backfill"].metadata) :
      /\ messages[store["backfill"].metadata[i].messageId] # NoRow
      /\ HasRecord(disk.metadata, store["backfill"].metadata[i].messageId)


\* ---------------------------------------------------------------------
\* HebrewProcessor: texts are sequences of characters, so that
\* String.replace and String.includes act on substrings as they do in
\* the code, inside words and across the boundaries of words.
\* ---------------------------------------------------------------------

\* The longest text explored, in words, and the number of times a
\* query is put through processSearchQuery in a row.
MaxWords == 3

MaxPasses == 2

hebrewDateMap ==
  <<
    \* 'אתמול': 'yesterday'
    [ hebrew  |-> <<"א", "ת", "מ", "ו", "ל">>,
      english |-> <<"y", "e", "s", "t", "e", "r", "d", "a", "y">> ],
    \* 'מחר': 'tomorrow'
    [ hebrew  |-> <<"מ", "ח", "ר">>,
      english |-> <<"t", "o", "m", "o", "r", "r", "o", "w">> ],
    \* 'שלשום': '2 days ago'
    [ hebrew  |-> <<"ש", "ל", "ש", "ו", "ם">>,
      english |-> <<"2", " ", "d", "a", "y", "s", " ", "a", "g", "o">> ],
    \* 'לפני יומיים': '2 days ago'
    [ hebrew  |-> <<"ל", "פ", "נ", "י", " ", "י", "ו", "מ", "י", "י", "ם">>,
      english |-> <<"2", " ", "d", "a", "y", "s", " ", "a", "g", "o">> ],
    \* 'לפני שלושה ימים': '3 days ago'
    [ hebrew  |-> <<"ל", "פ", "נ", "י", " ", "ש", "ל", "ו", "ש", "ה", " ", "י", "מ", "י", "ם">>,
      english |-> <<"3", " ", "d", "a", "y", "s", " ", "a", "g", "o">> ],
    \* 'לפני ארבעה ימים': '4 days ago'
    [ hebrew  |-> <<"ל", "פ", "נ", "י", " ", "א", "ר", "ב", "ע", "ה", " ", "י", "מ", "י", "ם">>,
      english |-> <<"4", " ", "d", "a", "y", "s", " ", "a", "g", "o">> ],
    \* 'לפני חמישה ימים': '5 days ago'
    [ hebrew  |-> <<"ל", "פ", "נ", "י", " ", "ח", "מ", "י", "ש", "ה", " ", "י", "מ", "י", "ם">>,
      english |-> <<"5", " ", "d", "a", "y", "s", " ", "a", "g", "o">> ],
    \* 'השבוע': 'this week'
    [ hebrew  |-> <<"ה", "ש", "ב", "ו", "ע">>,
      english |-> <<"t", "h", "i", "s", " ", "w", "e", "e", "k">> ],
    \* 'השבוע שעבר': 'last week'
    [ hebrew  |-> <<"ה", "ש", "ב", "ו", "ע", " ", "ש", "ע", "ב", "ר">>,
      english |-> <<"l", "a", "s", "t", " ", "w", "e", "e", "k">> ],
    \* 'חודש שעבר': 'last month'
    [ hebrew  |-> <<"ח", "ו", "ד", "ש", " ", "ש", "ע", "ב", "ר">>,
      english |-> <<"l", "a", "s", "t", " ", "m", "o", "n", "t", "h">> ],
    \* 'השנה': 'this year'
    [ hebrew  |-> <<"ה", "ש", "נ", "ה">>,
      english |-> <<"t", "h", "i", "s", " ", "y", "e", "a", "r">> ],
    \* 'השנה שעברה': 'last year'
    [ hebrew  |-> <<"ה", "ש", "נ", "ה", " ", "ש", "ע", "ב", "ר", "ה">>,
      english |-> <<"l", "a", "s", "t", " ", "y", "e", "a", "r">> ]
  >>

hebrewMeetingTerms ==
  <<
    \* 'נפגש': 'meet met meeting'
    [ hebrew  |-> <<"נ", "פ", "ג", "ש">>,
      english |-> <<"m", "e", "e", "t", " ", "m", "e", "t", " ", "m", "e", "e", "t", "i", "n", "g">> ],
    \* 'נפגשתי': 'met meeting'
    [ hebrew  |-> <<"נ", "פ", "ג", "ש", "ת", "י">>,
      english |-> <<"m", "e", "t", " ", "m", "e", "e", "t", "i", "n", "g">> ],
    \* 'נפגשנו': 'we met meeting'
    [ hebrew  |-> <<"נ", "פ", "ג", "ש", "נ", "ו">>,
      english |-> <<"w", "e", " ", "m", "e", "t", " ", "m", "e", "e", "t", "i", "n", "g">> ],
    \* 'פגישה': 'meeting appointment'
    [ hebrew  |-> <<"פ", "ג", "י", "ש", "ה">>,
      english |-> <<"m", "e", "e", "t", "i", "n", "g", " ", "a", "p", "p", "o", "i", "n", "t", "m", "e", "n", "t">> ],
    \* 'על האש': 'planned scheduled meeting on fire'
    [ hebrew  |-> <<"ע", "ל", " ", "ה", "א", "ש">>,
      english |-> <<"p", "l", "a", "n", "n", "e", "d", " ", "s", "c", "h", "e", "d", "u", "l", "e", "d", " ", "m", "e", "e", "t", "i", "n", "g", " ", "o", "n", " ", "f", "i", "r", "e">> ],
    \* 'תוכניות': 'plans'
    [ hebrew  |-> <<"ת", "ו", "כ", "נ", "י", "ו", "ת">>,
      english |-> <<"p", "l", "a", "n", "s">> ],
    \* 'מחר': 'tomorrow'
    [ hebrew  |-> <<"מ", "ח", "ר">>,
      english |-> <<"t", "o", "m", "o", "r", "r", "o", "w">> ],
    \* 'היום': 'today'
    [ hebrew  |-> <<"ה", "י", "ו", "ם">>,
      english |-> <<"t", "o", "d", "a", "y">> ],
    \* 'אתמול': 'yesterday'
    [ hebrew  |-> <<"א", "ת", "מ", "ו", "ל">>,
      english |-> <<"y", "e", "s", "t", "e", "r", "d", "a", "y">> ],
    \* 'בשעה': 'at time'
    [ hebrew  |-> <<"ב", "ש", "ע", "ה">>,
      english |-> <<"a", "t", " ", "t", "i", "m", "e">> ],
    \* 'אצלי': 'at my place'
    [ hebrew  |-> <<"א", "צ", "ל", "י">>,
      english |-> <<"a", "t", " ", "m", "y", " ", "p", "l", "a", "c", "e">> ],
    \* 'אצלך': 'at your place'
    [ hebrew  |-> <<"א", "צ", "ל", "ך">>,
      english |-> <<"a", "t", " ", "y", "o", "u", "r", " ", "p", "l", "a", "c", "e">> ],
    \* 'אצלו': 'at his place'
    [ hebrew  |-> <<"א", "צ", "ל", "ו">>,
      english |-> <<"a", "t", " ", "h", "i", "s", " ", "p", "l", "a", "c", "e">> ],
    \* 'אצלה': 'at her place'
    [ hebrew  |-> <<"א", "צ", "ל", "ה">>,
      english |-> <<"a", "t", " ", "h", "e", "r", " ", "p", "l", "a", "c", "e">> ],
    \* 'בקניון': 'at mall'
    [ hebrew  |-> <<"ב", "ק", "נ", "י", "ו", "ן">>,
      english |-> <<"a", "t", " ", "m", "a", "l", "l">> ],
    \* 'בבית קפה': 'at cafe'
    [ hebrew  |-> <<"ב", "ב", "י", "ת", " ", "ק", "פ", "ה">>,
      english |-> <<"a", "t", " ", "c", "a", "f", "e">> ],
    \* 'במסעדה': 'at restaurant'
    [ hebrew  |-> <<"ב", "מ", "ס", "ע", "ד", "ה">>,
      english |-> <<"a", "t", " ", "r", "e", "s", "t", "a", "u", "r", "a", "n", "t">> ],
    \* 'יש': 'there is have'
    [ hebrew  |-> <<"י", "ש">>,
      english |-> <<"t", "h", "e", "r", "e", " ", "i", "s", " ", "h", "a", "v", "e">> ],
    \* 'כן': 'yes'
    [ hebrew  |-> <<"כ", "ן">>,
      english |-> <<"y", "e", "s">> ],
    \* 'בטח': 'sure definitely'
    [ hebrew  |-> <<"ב", "ט", "ח">>,
      english |-> <<"s", "u", "r", "e", " ", "d", "e", "f", "i", "n", "i", "t", "e", "l", "y">> ],
    \* 'סבבה': 'okay good'
    [ hebrew  |-> <<"ס", "ב", "ב", "ה">>,
      english |-> <<"o", "k", "a", "y", " ", "g", "o", "o", "d">> ],
    \* 'אוקיי': 'okay'
    [ hebrew  |-> <<"א", "ו", "ק", "י", "י">>,
      english |-> <<"o", "k", "a", "y">> ]
  >>

meetingIndicators ==
  <<
    <<"ע", "ל", " ", "ה", "א", "ש">>,  \* 'על האש'
    <<"נ", "פ", "ג", "ש">>,  \* 'נפגש'
    <<"פ", "ג", "י", "ש", "ה">>,  \* 'פגישה'
    <<"ת", "ו", "כ", "נ", "י", "ו", "ת">>,  \* 'תוכניות'
    <<"מ", "ח", "ר">>,  \* 'מחר'
    <<"ב", "ש", "ע", "ה">>,  \* 'בשעה'
    <<"א", "צ", "ל">>   \* 'אצל'
  >>

confirmationWords ==
  <<
    <<"כ", "ן">>,  \* 'כן'
    <<"ב", "ט", "ח">>,  \* 'בטח'
    <<"ס", "ב", "ב", "ה">>,  \* 'סבבה'
    <<"א", "ו", "ק", "י", "י">>,  \* 'אוקיי'
    <<"י", "ש">>   \* 'יש'
  >>

\* The letters matched by /[\u0590-\u05FF]/ that the texts explored
\* are written with.
HebrewLetters ==
  { "א", "ב", "ג", "ד", "ה", "ו", "ח", "ט", "י", "ך", "כ", "ל", "ם", "מ", "ן", "נ", "ס", "ע", "פ", "צ", "ק", "ר", "ש", "ת" }

\* The words the texts explored are made of.
Vocabulary ==
  <<
    <<"א", "ת", "מ", "ו", "ל">>,
    <<"מ", "ח", "ר">>,
    <<"ל", "פ", "נ", "י">>,
    <<"י", "ו", "מ", "י", "י", "ם">>,
    <<"ה", "ש", "ב", "ו", "ע">>,
    <<"ש", "ע", "ב", "ר">>,
    <<"ה", "ש", "נ", "ה">>,
    <<"ש", "ע", "ב", "ר", "ה">>,
    <<"ח", "ו", "ד", "ש">>,
    <<"נ", "פ", "ג", "ש">>,
    <<"פ", "ג", "י", "ש", "ה">>,
    <<"ה", "י", "ו", "ם">>,
    <<"l", "u", "n", "c", "h">>
  >>

\* String.prototype.includes
Includes(text, pattern) ==
  \E i \in 1..(Len(text) - Len(pattern) + 1) :
    SubSeq(text, i, i + Len(pattern) - 1) = pattern

\* String.prototype.replace with a global RegExp of literal characters:
\* every match, leftmost first, matches never overlapping.
RECURSIVE ReplaceAll(_, _, _)
ReplaceAll(text, pattern, replacement) ==
  IF Len(text) < Len(pattern)
  THEN text
  ELSE IF SubSeq(text, 1, Len(pattern)) = pattern
       THEN replacement \o
            ReplaceAll(SubSeq(text, Len(pattern) + 1, Len(text)),
                       pattern, replacement)
       ELSE <<Head(text)>> \o ReplaceAll(Tail(text), pattern, replacement)

\* The loop of parseHebrewDates from entry k of Object.entries on.
RECURSIVE ParseFrom(_, _)
ParseFrom(processedText, k) ==
  IF k > Len(hebrewDateMap)
  THEN processedText
  ELSE ParseFrom(ReplaceAll(processedText, hebrewDateMap[k].hebrew,
                            hebrewDateMap[k].english),
                 k + 1)

parseHebrewDates(text) == ParseFrom(text, 1)

\* The loop of enhanceWithHebrewMeetingTerms from entry k on: the test
\* is on the query as given, the synonyms go to the end of the result.
RECURSIVE EnhanceFrom(_, _, _)
EnhanceFrom(query, enhancedQuery, k) ==
  IF k > Len(hebrewMeetingTerms)
  THEN enhancedQuery
  ELSE EnhanceFrom(query,
                   IF Includes(query, hebrewMeetingTerms[k].hebrew)
                   THEN enhancedQuery \o <<" ">> \o hebrewMeetingTerms[k].english
                   ELSE enhancedQuery,
                   k + 1)

enhanceWithHebrewMeetingTerms(query) == EnhanceFrom(query, query, 1)

detectMeetingContext(text) ==
  LET hasMeetingTerms ==
        \E i \in 1..Len(meetingIndicators) : Includes(text, meetingIndicators[i])
      hasConfirmation ==
        \E i \in 1..Len(confirmationWords) : Includes(text, confirmationWords[i])
  IN [ isMeetingRelated |-> hasMeetingTerms,
       hasConfirmation  |-> hasConfirmation,
       confidenceTenths |-> IF hasMeetingTerms
                            THEN (IF hasConfirmation THEN 9 ELSE 7)
                            ELSE 1 ]

processSearchQuery(query) ==
  [ originalQuery  |-> query,
    processedQuery |-> enhanceWithHebrewMeetingTerms(parseHebrewDates(query)),
    hasHebrew      |-> \E i \in 1..Len(query) : query[i] \in HebrewLetters,
    meetingContext |-> detectMeetingContext(query) ]

\* The words of a text joined by single spaces.
RECURSIVE JoinWords(_)
JoinWords(words) ==
  IF Len(words) = 0 THEN <<>>
  ELSE IF Len(words) = 1 THEN Vocabulary[words[1]]
  ELSE Vocabulary[words[1]] \o <<" ">> \o JoinWords(Tail(words))

\* The texts explored: one to MaxWords words of the vocabulary.
Queries ==
  { JoinWords(w) :
      w \in UNION { [1..n -> 1..Len(Vocabulary)] : n \in 1..MaxWords } }

\* A call of parseHebrewDates on a text, or a query put through
\* processSearchQuery and then its processedQuery put through it again,
\* as a caller that normalizes an already normalized query does.
InitQuery ==
  /\ NoProcess
  /\ call \in
       { [ op |-> "parseHebrewDates", text |-> t, done |-> FALSE,
           result |-> <<>> ] : t \in Queries }
       \cup
       { [ op |-> "processSearchQuery", query |-> q, outputs |-> <<>> ] :
           q \in Queries }

ParseHebrewDates ==
  /\ call.op = "parseHebrewDates"
  /\ ~call.done
  /\ call' = [call EXCEPT !.done = TRUE,
                          !.result = parseHebrewDates(call.text)]
  /\ UNCHANGED <<store, disk, cleanup, messages, children, backfill,
                 response, revoked, dirty, rebuilt, saved>>

ProcessSearchQuery ==
  /\ call.op = "processSearchQuery"
  /\ Len(call.outputs) < MaxPasses
  /\ LET query == IF call.outputs = <<>>
                  THEN call.query
                  ELSE call.outputs[Len(call.outputs)].processedQuery
     IN call' = [call EXCEPT
                   !.outputs = Append(call.outputs, processSearchQuery(query))]
  /\ UNCHANGED <<store, disk, cleanup, messages, children, backfill,
                 response, revoked, dirty, rebuilt, saved>>

NextQuery ==
  \/ ParseHebrewDates
  \/ ProcessSearchQuery

SpecQuery == InitQuery /\ [][NextQuery]_vars

\* C18: query normalization is idempotent: processSearchQuery applied
\* to the processedQuery it returned returns that processedQuery
\* unchanged, with no synonym appended a second time.
C18_NormalizationIdempotent ==
  (call.op = "processSearchQuery" /\ Len(call.outputs) >= 2) =>
    call.outputs[2].processedQuery = call.outputs[1].processedQuery

\* C19: parseHebrewDates replaces every phrase of hebrewDateMap that
\* occurs in the text by the English equivalent of that phrase: the
\* result has the equivalent of each phrase that occurred, and none of
\* the phrases.
C19_EveryPhraseReplaced ==
  (call.op = "parseHebrewDates" /\ call.done) =>
    \A k \in 1..Len(hebrewDateMap) :
      Includes(call.text, hebrewDateMap[k].hebrew) =>
        /\ Includes(call.result, hebrewDateMap[k].english)
        /\ ~Includes(call.result, hebrewDateMap[k].hebrew)


\* ---------------------------------------------------------------------
\* get_messages_by_date of the two MCP servers.
\* ---------------------------------------------------------------------

\* The days that stored messages and date phrases fall on.
Days == {1, 2}

\* Date phrases a caller passes: two that chrono parses and one that it
\* does not.
DateQueries == {"yesterday", "today", "sometime"}

SenderNames == {"a", "b"}

DateIds == {1, 2}

\* chrono.parse of a date phrase: the parsed dates, none for a phrase it
\* cannot parse.
chronoParse(dateQuery) ==
  CASE dateQuery = "yesterday" -> <<1>>
    [] dateQuery = "today" -> <<2>>
    [] OTHER -> <<>>

\* parseTimeRange: the day of the first parsed date, or nothing (null).
parseTimeRange(timeQuery) ==
  LET parsed == chronoParse(timeQuery)
  IN IF Len(parsed) = 0
     THEN <<>>
     ELSE <<[start |-> parsed[1], end |-> parsed[1]]>>

\* The ids of the rows getMessagesByDateRange resolves with: timestamp
\* BETWEEN start AND end, and the sender when one is given.
getMessagesByDateRange(rows, start, end, senderName) ==
  { id \in DOMAIN rows :
      /\ rows[id].timestamp >= start
      /\ rows[id].timestamp <= end
      /\ senderName # "null" => rows[id].sender_name = senderName }

\* What a caller of a tool receives: a result with its text and rows, or
\* a protocol error with its code and message. Texts are the sequences
\* of their parts.
ToolResult(text, ids) ==
  [kind |-> "result", code |-> "none", text |-> text, ids |-> ids]

McpError(code, message) ==
  [kind |-> "error", code |-> code, text |-> message, ids |-> {}]

NoToolResponse == [kind |-> "none", code |-> "none", text |-> <<>>, ids |-> {}]

\* handleGetMessagesByDate of the enhanced server: what it returns or
\* throws.
EnhancedHandleGetMessagesByDate(args, rows, dbFails) ==
  LET timeRange == parseTimeRange(args.date_query)
  IN IF timeRange = <<>>
     THEN McpError("InvalidParams", <<"Could not parse date">>)
     ELSE IF dbFails
          THEN McpError("none", <<"database error">>)
          ELSE LET results == getMessagesByDateRange(rows, timeRange[1].start,
                                                     timeRange[1].end,
                                                     args.sender_name)
               IN ToolResult(IF results = {}
                             THEN <<"No messages found">>
                             ELSE <<"Found messages">>,
                             results)

\* The CallTool handler of the enhanced server: whatever the tool
\* throws, an McpError included, is caught and thrown again as
\* InternalError with the message behind a prefix.
EnhancedCallToolResponse(isInitialized, args, rows, dbFails) ==
  IF ~isInitialized
  THEN McpError("InternalError", <<"Server not initialized">>)
  ELSE LET r == EnhancedHandleGetMessagesByDate(args, rows, dbFails)
       IN IF r.kind = "error"
          THEN McpError("InternalError", <<"Tool execution failed">> \o r.text)
          ELSE r

\* handleGetMessagesByDate of the standalone server: every error is
\* thrown again as a plain Error with a prefix.
StandaloneHandleGetMessagesByDate(args, rows, dbFails) ==
  LET parsedDates == chronoParse(args.date_query)
      thrown == IF Len(parsedDates) = 0
                THEN <<"Could not parse date">>
                ELSE IF dbFails THEN <<"database error">> ELSE <<>>
  IN IF thrown # <<>>
     THEN McpError("none", <<"Failed to get messages by date">> \o thrown)
     ELSE LET messagesFound == getMessagesByDateRange(rows, parsedDates[1],
                                                  parsedDates[1],
                                                  args.sender_name)
          IN ToolResult(IF messagesFound = {}
                        THEN <<"No messages found">>
                        ELSE <<"Found messages">>,
                        messagesFound)

\* The CallTool handler of the standalone server: a fixed text before
\* initialization, and every error returned as a result whose text
\* starts with "Error".
StandaloneCallToolResponse(isInitialized, args, rows, dbFails) ==
  IF ~isInitialized
  THEN ToolResult(<<"WhatsApp indexer is not initialized yet">>, {})
  ELSE LET r == StandaloneHandleGetMessagesByDate(args, rows, dbFails)
       IN IF r.kind = "error"
          THEN ToolResult(<<"Error">> \o r.text, {})
          ELSE r

\* handleGetMessagesByDate of the Hebrew-aware server: the phrase goes
\* through parseHebrewDates and then to database.getMessagesByDate, a
\* method no Database class defines, so the call throws a TypeError,
\* which is thrown again as a plain Error with a prefix.
HebrewHandleGetMessagesByDate(args, rows, dbFails) ==
  McpError("none", <<"Failed to get messages by date",
                     "this.database.getMessagesByDate is not a function">>)

\* The CallTool handler of the Hebrew-aware server: a plain Error thrown
\* before initialization, outside the try block; every error of a tool
\* returned as a result whose text starts with "Error".
HebrewCallToolResponse(isInitialized, args, rows, dbFails) ==
  IF ~isInitialized
  THEN McpError("none", <<"Server not initialized">>)
  ELSE LET r == HebrewHandleGetMessagesByDate(args, rows, dbFails)
       IN IF r.kind = "error"
          THEN ToolResult(<<"Error">> \o r.text, {})
          ELSE r

\* The response of the CallTool handler of a server.
CallToolResponse(server, isInitialized, args, rows, dbFails) ==
  CASE server = "enhanced" ->
         EnhancedCallToolResponse(isInitialized, args, rows, dbFails)
    [] server = "standalone" ->
         StandaloneCallToolResponse(isInitialized, args, rows, dbFails)
    [] server = "hebrew" ->
         HebrewCallToolResponse(isInitialized, args, rows, dbFails)

\* The messages table as the tool sees it.
DateRows ==
  UNION { [S -> [timestamp : Days, sender_name : SenderNames]] :
            S \in SUBSET DateIds }

\* One get_messages_by_date request to one of the servers.
InitTool ==
  /\ NoProcess
  /\ call \in
       [ op : {"get_messages_by_date"},
         server : {"enhanced", "standalone", "hebrew"},
         isInitialized : BOOLEAN,
         args : [date_query : DateQueries, sender_name : SenderNames \cup {"null"}],
         rows : DateRows,
         dbFails : BOOLEAN,
         done : {FALSE},
         response : {NoToolResponse} ]

EnhancedCallTool ==
  /\ call.op = "get_messages_by_date"
  /\ call.server = "enhanced"
  /\ ~call.done
  /\ call' = [call EXCEPT
                !.done = TRUE,
                !.response = EnhancedCallToolResponse(call.isInitialized,
                               call.args, call.rows, call.dbFails)]
  /\ UNCHANGED <<store, disk, cleanup, messages, children, backfill,
                 response, revoked, dirty, rebuilt, saved>>

StandaloneCallTool ==
  /\ call.op = "get_messages_by_date"
  /\ call.server = "standalone"
  /\ ~call.done
  /\ call' = [call EXCEPT
                !.done = TRUE,
                !.response = StandaloneCallToolResponse(call.isInitialized,
                               call.args, call.rows, call.dbFails)]
  /\ UNCHANGED <<store, disk, cleanup, messages, children, backfill,
                 response, revoked, dirty, rebuilt, saved>>

HebrewCallTool ==
  /\ call.op = "get_messages_by_date"
  /\ call.server = "hebrew"
  /\ ~call.done
  /\ call' = [call EXCEPT
                !.done = TRUE,
                !.response = HebrewCallToolResponse(call.isInitialized,
                               call.args, call.rows, call.dbFails)]
  /\ UNCHANGED <<store, disk, cleanup, messages, children, backfill,
                 response, revoked, dirty, rebuilt, saved>>

NextTool ==
  \/ EnhancedCallTool
  \/ StandaloneCallTool
  \/ HebrewCallTool

SpecTool == InitTool /\ [][NextTool]_vars

\* C20: a date phrase that cannot be parsed, passed to
\* get_messages_by_date of an initialized server, reaches the caller as
\* an error with the invalid-parameters code: neither the code of an
\* internal failure nor a result.
C20_UnparseableDateIsInvalidParams ==
  ( /\ call.op = "get_messages_by_date"
    /\ call.done
    /\ call.isInitialized
    /\ parseTimeRange(call.args.date_query) = <<>> )
  => /\ call.response.kind = "error"
     /\ call.response.code = "InvalidParams"


\* The status of a response: what a caller can branch on without
\* reading the text of the message.
StatusOf(r) == <<r.kind, r.code>>

\* C21: a tool call handled before initialization has completed is
\* answered with a status of its own: not the status the same server
\* gives to a tool that failed (here, whose database query failed).
C21_NotReadyStatusDistinct ==
  ( /\ call.op = "get_messages_by_date"
    /\ call.done
    /\ ~call.isInitialized )
  => \A a \in [date_query : {"yesterday", "today"},
               sender_name : SenderNames \cup {"null"}] :
       StatusOf(call.response)
         # StatusOf(CallToolResponse(call.server, TRUE, a, call.rows, TRUE))


\* The records of a metadata array that are not the ones of History.
NewRecords(md) ==
  Cardinality({i \in 1..Len(md) : md[i].messageId \notin HistoryIds})

\* The listener over the files and rows an earlier run left: its
\* initialize() with the index files readable or not, and its
\* handleMessage with every text and every failure.
NextIo ==
  \/ \E readFails \in BOOLEAN : Initialize("listener", readFails)
  \/ \E id \in Ids, c \in Contents, fail \in HandleFailures :
       /\ NewRecords(store["listener"].metadata) < MaxNew
       /\ HandleMessage(id, c, fail)

SpecIo == InitProcs /\ [][NextIo]_vars

\* C22: a genuine I/O failure of a store or index operation is raised,
\* not swallowed: an initialize() that could not read the persisted
\* index does not leave the store initialized (on an empty index), and a
\* handleMessage whose saveMessage could not insert a child row does not
\* go on to index the message.
C22_IoFailureRaised ==
  [][ /\ (disk.exists /\ Initialize("listener", TRUE))
           => ~store'["listener"].isInitialized
      /\ \A id \in Ids, c \in Contents, fail \in {"urls", "entities", "scheduling"} :
           ( /\ \E r \in ChildRows(processMessage(id, c)) : r.table = fail
             /\ HandleMessage(id, c, fail) )
           => store' = store ]_vars


\* ---------------------------------------------------------------------
\* find_schedule_with_person of the three MCP servers, on the messages
\* of one group chat.
\* ---------------------------------------------------------------------

UpperLetters ==
  { "A", "B", "C", "D", "E", "F", "G", "H", "I", "J", "K", "L", "M", "N", "O", "P", "Q", "R", "S", "T", "U", "V", "W", "X", "Y", "Z" }

LowerLetters ==
  { "a", "b", "c", "d", "e", "f", "g", "h", "i", "j", "k", "l", "m", "n", "o", "p", "q", "r", "s", "t", "u", "v", "w", "x", "y", "z" }

\* The characters \w of a regular expression matches.
WordChars ==
  UpperLetters \cup LowerLetters
  \cup { "0", "1", "2", "3", "4", "5", "6", "7", "8", "9", "_" }

LowerCase ==
  ("A" :> "a")
  @@ ("B" :> "b")
  @@ ("C" :> "c")
  @@ ("D" :> "d")
  @@ ("E" :> "e")
  @@ ("F" :> "f")
  @@ ("G" :> "g")
  @@ ("H" :> "h")
  @@ ("I" :> "i")
  @@ ("J" :> "j")
  @@ ("K" :> "k")
  @@ ("L" :> "l")
  @@ ("M" :> "m")
  @@ ("N" :> "n")
  @@ ("O" :> "o")
  @@ ("P" :> "p")
  @@ ("Q" :> "q")
  @@ ("R" :> "r")
  @@ ("S" :> "s")
  @@ ("T" :> "t")
  @@ ("U" :> "u")
  @@ ("V" :> "v")
  @@ ("W" :> "w")
  @@ ("X" :> "x")
  @@ ("Y" :> "y")
  @@ ("Z" :> "z")

\* String.prototype.toLowerCase
toLowerCase(text) ==
  [ i \in 1..Len(text) |->
      IF text[i] \in DOMAIN LowerCase THEN LowerCase[text[i]] ELSE text[i] ]

\* text.split(/\s+/) of a text whose white space is single spaces.
RECURSIVE SplitFrom(_, _, _)
SplitFrom(text, i, word) ==
  IF i > Len(text) THEN <<word>>
  ELSE IF text[i] = " " THEN <<word>> \o SplitFrom(text, i + 1, <<>>)
  ELSE SplitFrom(text, i + 1, Append(word, text[i]))

Split(text) == SplitFrom(text, 1, <<>>)

\* /\b(word)\b/i.test(text): the word, in any case, with no word
\* character next to it.
MatchesWord(text, word) ==
  LET lower == toLowerCase(text)
  IN \E i \in 1..(Len(lower) - Len(word) + 1) :
       /\ SubSeq(lower, i, i + Len(word) - 1) = word
       /\ i > 1 => lower[i - 1] \notin WordChars
       /\ i + Len(word) <= Len(lower) => lower[i + Len(word)] \notin WordChars

\* schedulingKeywords.hebrew followed by schedulingKeywords.english
schedulingKeywords ==
  <<
    <<"נ", "פ", "ג", "ש">>,  \* 'נפגש'
    <<"נ", "פ", "ג", "ש", "י", "ם">>,  \* 'נפגשים'
    <<"נ", "ר", "א", "ה">>,  \* 'נראה'
    <<"נ", "ת", "ר", "א", "ה">>,  \* 'נתראה'
    <<"ב", "ו", "א", "ו">>,  \* 'בואו'
    <<"ת", "ב", "ו", "א">>,  \* 'תבוא'
    <<"ת", "ב", "ו", "א", "י">>,  \* 'תבואי'
    <<"א", "ב", "ו", "א">>,  \* 'אבוא'
    <<"מ", "ח", "ר">>,  \* 'מחר'
    <<"ה", "י", "ו", "ם">>,  \* 'היום'
    <<"ה", "ע", "ר", "ב">>,  \* 'הערב'
    <<"ב", "ע", "ר", "ב">>,  \* 'בערב'
    <<"ב", "ב", "ו", "ק", "ר">>,  \* 'בבוקר'
    <<"א", "ח", "ר", " ", "ה", "צ", "ה", "ר", "י", "י", "ם">>,  \* 'אחר הצהריים'
    <<"ב", "ל", "י", "ל", "ה">>,  \* 'בלילה'
    <<"י", "ו", "ם", " ", "ר", "א", "ש", "ו", "ן">>,  \* 'יום ראשון'
    <<"י", "ו", "ם", " ", "ש", "נ", "י">>,  \* 'יום שני'
    <<"י", "ו", "ם", " ", "ש", "ל", "י", "ש", "י">>,  \* 'יום שלישי'
    <<"י", "ו", "ם", " ", "ר", "ב", "י", "ע", "י">>,  \* 'יום רביעי'
    <<"י", "ו", "ם", " ", "ח", "מ", "י", "ש", "י">>,  \* 'יום חמישי'
    <<"י", "ו", "ם", " ", "ש", "י", "ש", "י">>,  \* 'יום שישי'
    <<"ש", "ב", "ת">>,  \* 'שבת'
    <<"ר", "א", "ש", "ו", "ן">>,  \* 'ראשון'
    <<"ש", "נ", "י">>,  \* 'שני'
    <<"ש", "ל", "י", "ש", "י">>,  \* 'שלישי'
    <<"ר", "ב", "י", "ע", "י">>,  \* 'רביעי'
    <<"ח", "מ", "י", "ש", "י">>,  \* 'חמישי'
    <<"ש", "י", "ש", "י">>,  \* 'שישי'
    <<"פ", "ג", "י", "ש", "ה">>,  \* 'פגישה'
    <<"א", "ר", "ו", "ח", "ה">>,  \* 'ארוחה'
    <<"א", "ר", "ו", "ח", "ת", " ", "ע", "ר", "ב">>,  \* 'ארוחת ערב'
    <<"א", "ר", "ו", "ח", "ת", " ", "צ", "ה", "ר", "י", "י", "ם">>,  \* 'ארוחת צהריים'
    <<"ק", "פ", "ה">>,  \* 'קפה'
    <<"ש", "ת", "י", "י", "ה">>,  \* 'שתייה'
    <<"י", "ו", "ם", " ", "ה", "ו", "ל", "ד", "ת">>,  \* 'יום הולדת'
    <<"ח", "ג", "י", "ג", "ה">>,  \* 'חגיגה'
    <<"מ", "ס", "י", "ב", "ה">>,  \* 'מסיבה'
    <<"א", "י", "ר", "ו", "ע">>,  \* 'אירוע'
    <<"ב", "א", "ז", "ו", "ר">>,  \* 'באזור'
    <<"נ", "ג", "י", "ע">>,  \* 'נגיע'
    <<"נ", "ס", "י", "ע", "ה">>,  \* 'נסיעה'
    <<"נ", "ל", "ך">>,  \* 'נלך'
    <<"נ", "ב", "ו", "א">>,  \* 'נבוא'
    <<"m", "e", "e", "t">>,  \* 'meet'
    <<"m", "e", "e", "t", "i", "n", "g">>,  \* 'meeting'
    <<"s", "e", "e", " ", "y", "o", "u">>,  \* 'see you'
    <<"l", "e", "t", "'", "s", " ", "m", "e", "e", "t">>,  \* 'let's meet'
    <<"c", "o", "m", "e">>,  \* 'come'
    <<"g", "o">>,  \* 'go'
    <<"v", "i", "s", "i", "t">>,  \* 'visit'
    <<"t", "o", "d", "a", "y">>,  \* 'today'
    <<"t", "o", "m", "o", "r", "r", "o", "w">>,  \* 'tomorrow'
    <<"t", "o", "n", "i", "g", "h", "t">>,  \* 'tonight'
    <<"m", "o", "r", "n", "i", "n", "g">>,  \* 'morning'
    <<"a", "f", "t", "e", "r", "n", "o", "o", "n">>,  \* 'afternoon'
    <<"e", "v", "e", "n", "i", "n", "g">>,  \* 'evening'
    <<"n", "i", "g", "h", "t">>,  \* 'night'
    <<"m", "o", "n", "d", "a", "y">>,  \* 'monday'
    <<"t", "u", "e", "s", "d", "a", "y">>,  \* 'tuesday'
    <<"w", "e", "d", "n", "e", "s", "d", "a", "y">>,  \* 'wednesday'
    <<"t", "h", "u", "r", "s", "d", "a", "y">>,  \* 'thursday'
    <<"f", "r", "i", "d", "a", "y">>,  \* 'friday'
    <<"s", "a", "t", "u", "r", "d", "a", "y">>,  \* 'saturday'
    <<"s", "u", "n", "d", "a", "y">>,  \* 'sunday'
    <<"l", "u", "n", "c", "h">>,  \* 'lunch'
    <<"d", "i", "n", "n", "e", "r">>,  \* 'dinner'
    <<"c", "o", "f", "f", "e", "e">>,  \* 'coffee'
    <<"d", "r", "i", "n", "k">>,  \* 'drink'
    <<"m", "e", "a", "l">>,  \* 'meal'
    <<"b", "i", "r", "t", "h", "d", "a", "y">>,  \* 'birthday'
    <<"p", "a", "r", "t", "y">>,  \* 'party'
    <<"c", "e", "l", "e", "b", "r", "a", "t", "i", "o", "n">>,  \* 'celebration'
    <<"e", "v", "e", "n", "t">>,  \* 'event'
    <<"a", "p", "p", "o", "i", "n", "t", "m", "e", "n", "t">>,  \* 'appointment'
    <<"s", "c", "h", "e", "d", "u", "l", "e">>,  \* 'schedule'
    <<"p", "l", "a", "n">>,  \* 'plan'
    <<"c", "a", "l", "e", "n", "d", "a", "r">>   \* 'calendar'
  >>

hebrewNames ==
  <<
    <<"ר", "ו", "נ", "י">>,  \* 'רוני'
    <<"מ", "י", "כ", "א", "ל">>,  \* 'מיכאל'
    <<"ע", "ו", "ז">>,  \* 'עוז'
    <<"ר", "ו", "ע", "י">>,  \* 'רועי'
    <<"ש", "נ", "י">>,  \* 'שני'
    <<"י", "ה", "ב">>,  \* 'יהב'
    <<"ר", "ו", "ת", "ם">>,  \* 'רותם'
    <<"א", "י", "ת", "י">>,  \* 'איתי'
    <<"א", "ר", "ת", "ו", "ר">>,  \* 'ארתור'
    <<"א", "מ", "א">>,  \* 'אמא'
    <<"א", "ב", "א">>,  \* 'אבא'
    <<"א", "ח">>,  \* 'אח'
    <<"א", "ח", "ו", "ת">>,  \* 'אחות'
    <<"ח", "ב", "ר">>,  \* 'חבר'
    <<"ח", "ב", "ר", "ה">>,  \* 'חברה'
    <<"ב", "ן", " ", "ז", "ו", "ג">>,  \* 'בן זוג'
    <<"ב", "ת", " ", "ז", "ו", "ג">>   \* 'בת זוג'
  >>

relationships ==
  <<
    <<"א", "מ", "א">>,  \* 'אמא'
    <<"א", "ב", "א">>,  \* 'אבא'
    <<"א", "ח">>,  \* 'אח'
    <<"א", "ח", "ו", "ת">>,  \* 'אחות'
    <<"ח", "ב", "ר">>,  \* 'חבר'
    <<"ח", "ב", "ר", "ה">>,  \* 'חברה'
    <<"m", "o", "m">>,  \* 'mom'
    <<"d", "a", "d">>,  \* 'dad'
    <<"b", "r", "o", "t", "h", "e", "r">>,  \* 'brother'
    <<"s", "i", "s", "t", "e", "r">>,  \* 'sister'
    <<"f", "r", "i", "e", "n", "d">>   \* 'friend'
  >>

hebrewTimes ==
  <<
    <<"ה", "ע", "ר", "ב">>,  \* 'הערב'
    <<"ב", "ע", "ר", "ב">>,  \* 'בערב'
    <<"ה", "י", "ו", "ם">>,  \* 'היום'
    <<"מ", "ח", "ר">>,  \* 'מחר'
    <<"מ", "ח", "ר", "ת", "י", "י", "ם">>,  \* 'מחרתיים'
    <<"ה", "ש", "ב", "ו", "ע">>,  \* 'השבוע'
    <<"ה", "ש", "ב", "ו", "ע", " ", "ה", "ב", "א">>,  \* 'השבוע הבא'
    <<"ב", "ב", "ו", "ק", "ר">>,  \* 'בבוקר'
    <<"ב", "צ", "ה", "ר", "י", "י", "ם">>,  \* 'בצהריים'
    <<"א", "ח", "ר", " ", "ה", "צ", "ה", "ר", "י", "י", "ם">>,  \* 'אחר הצהריים'
    <<"ב", "ל", "י", "ל", "ה">>,  \* 'בלילה'
    <<"ע", "כ", "ש", "י", "ו">>,  \* 'עכשיו'
    <<"א", "ח", "ר", " ", "כ", "ך">>,  \* 'אחר כך'
    <<"ל", "א", "ח", "ר", " ", "מ", "כ", "ן">>   \* 'לאחר מכן'
  >>

questionPatterns ==
  <<
    <<"?">>,  \* '?'
    <<"י", "כ", "ו", "ל">>,  \* 'יכול'
    <<"א", "פ", "ש", "ר">>,  \* 'אפשר'
    <<"ז", "מ", "י", "ן">>,  \* 'זמין'
    <<"c", "a", "n", " ", "y", "o", "u">>,  \* 'can you'
    <<"a", "r", "e", " ", "y", "o", "u">>,  \* 'are you'
    <<"a", "v", "a", "i", "l", "a", "b", "l", "e">>,  \* 'available'
    <<"f", "r", "e", "e">>   \* 'free'
  >>

\* The words of the content test of the standalone server.
schedulingWords ==
  <<
    <<"m", "e", "e", "t">>,  \* 'meet'
    <<"m", "e", "e", "t", "i", "n", "g">>,  \* 'meeting'
    <<"s", "c", "h", "e", "d", "u", "l", "e">>,  \* 'schedule'
    <<"a", "p", "p", "o", "i", "n", "t", "m", "e", "n", "t">>,  \* 'appointment'
    <<"p", "l", "a", "n">>,  \* 'plan'
    <<"w", "h", "e", "n">>,  \* 'when'
    <<"t", "i", "m", "e">>,  \* 'time'
    <<"t", "o", "m", "o", "r", "r", "o", "w">>,  \* 'tomorrow'
    <<"t", "o", "d", "a", "y">>,  \* 'today'
    <<"m", "o", "n", "d", "a", "y">>,  \* 'monday'
    <<"t", "u", "e", "s", "d", "a", "y">>,  \* 'tuesday'
    <<"w", "e", "d", "n", "e", "s", "d", "a", "y">>,  \* 'wednesday'
    <<"t", "h", "u", "r", "s", "d", "a", "y">>,  \* 'thursday'
    <<"f", "r", "i", "d", "a", "y">>,  \* 'friday'
    <<"s", "a", "t", "u", "r", "d", "a", "y">>,  \* 'saturday'
    <<"s", "u", "n", "d", "a", "y">>   \* 'sunday'
  >>

\* The phrases chrono.parse finds a date in (the ones chronoParse knows).
chronoPhrases ==
  <<
    <<"y", "e", "s", "t", "e", "r", "d", "a", "y">>,
    <<"t", "o", "d", "a", "y">>,
    <<"t", "o", "m", "o", "r", "r", "o", "w">>,
    <<"t", "h", "i", "s", " ", "w", "e", "e", "k">>
  >>

\* extractTimeReferences(text).length > 0, for texts with no clock time.
HasTimeReference(text) ==
  \/ \E i \in 1..Len(chronoPhrases) : Includes(toLowerCase(text), chronoPhrases[i])
  \/ \E i \in 1..Len(hebrewTimes) : Includes(toLowerCase(text), hebrewTimes[i])

detectSchedulingIntent(text) ==
  LET textLower == toLowerCase(text)
      hasSchedulingKeyword ==
        \E i \in 1..Len(schedulingKeywords) :
          Includes(textLower, toLowerCase(schedulingKeywords[i]))
      hasQuestionPattern ==
        \E i \in 1..Len(questionPatterns) : Includes(textLower, questionPatterns[i])
  IN hasSchedulingKeyword \/ (hasQuestionPattern /\ HasTimeReference(text))

\* extractPeople: the Hebrew names in the text, its capitalized words of
\* three letters or more, and the relationship terms in it.
extractPeople(text) ==
  LET words == Split(text)
  IN { hebrewNames[i] : i \in {j \in 1..Len(hebrewNames) :
                                 Includes(text, hebrewNames[j])} }
     \cup { words[i] : i \in {j \in 1..Len(words) :
                                /\ Len(words[j]) > 2
                                /\ words[j][1] \in UpperLetters
                                /\ \A k \in 2..Len(words[j]) :
                                     words[j][k] \in LowerLetters} }
     \cup { relationships[i] : i \in {j \in 1..Len(relationships) :
                                 Includes(toLowerCase(text),
                                          toLowerCase(relationships[j]))} }

\* venueTypes, the Hebrew ones and then the English ones.
venueTypes ==
  <<
    <<"מ", "ס", "ע", "ד", "ה">>,  \* 'מסעדה'
    <<"ב", "י", "ת", " ", "ק", "פ", "ה">>,  \* 'בית קפה'
    <<"פ", "א", "ב">>,  \* 'פאב'
    <<"ב", "ר">>,  \* 'בר'
    <<"ק", "ו", "ל", "נ", "ו", "ע">>,  \* 'קולנוע'
    <<"ת", "י", "א", "ט", "ר", "ו", "ן">>,  \* 'תיאטרון'
    <<"ח", "ד", "ר", " ", "כ", "ו", "ש", "ר">>,  \* 'חדר כושר'
    <<"פ", "א", "ר", "ק">>,  \* 'פארק'
    <<"ח", "ו", "ף">>,  \* 'חוף'
    <<"ק", "נ", "י", "ו", "ן">>,  \* 'קניון'
    <<"r", "e", "s", "t", "a", "u", "r", "a", "n", "t">>,  \* 'restaurant'
    <<"c", "a", "f", "e">>,  \* 'cafe'
    <<"p", "u", "b">>,  \* 'pub'
    <<"b", "a", "r">>,  \* 'bar'
    <<"c", "i", "n", "e", "m", "a">>,  \* 'cinema'
    <<"t", "h", "e", "a", "t", "e", "r">>,  \* 'theater'
    <<"g", "y", "m">>,  \* 'gym'
    <<"p", "a", "r", "k">>,  \* 'park'
    <<"b", "e", "a", "c", "h">>,  \* 'beach'
    <<"m", "a", "l", "l">>   \* 'mall'
  >>

\* activityKeywords, the Hebrew ones and then the English ones.
activityKeywords ==
  <<
    <<"א", "ר", "ו", "ח", "ה">>,  \* 'ארוחה'
    <<"א", "ר", "ו", "ח", "ת", " ", "ע", "ר", "ב">>,  \* 'ארוחת ערב'
    <<"א", "ר", "ו", "ח", "ת", " ", "צ", "ה", "ר", "י", "י", "ם">>,  \* 'ארוחת צהריים'
    <<"א", "ר", "ו", "ח", "ת", " ", "ב", "ו", "ק", "ר">>,  \* 'ארוחת בוקר'
    <<"ק", "פ", "ה">>,  \* 'קפה'
    <<"ש", "ת", "י", "י", "ה">>,  \* 'שתייה'
    <<"פ", "ג", "י", "ש", "ה">>,  \* 'פגישה'
    <<"י", "ש", "י", "ב", "ה">>,  \* 'ישיבה'
    <<"פ", "ג", "י", "ש", "ת", " ", "ע", "ב", "ו", "ד", "ה">>,  \* 'פגישת עבודה'
    <<"ר", "א", "י", "ו", "ן">>,  \* 'ראיון'
    <<"פ", "ג", "י", "ש", "ת", " ", "ע", "ס", "ק", "י", "ם">>,  \* 'פגישת עסקים'
    <<"י", "ו", "ם", " ", "ה", "ו", "ל", "ד", "ת">>,  \* 'יום הולדת'
    <<"ח", "ג", "י", "ג", "ה">>,  \* 'חגיגה'
    <<"מ", "ס", "י", "ב", "ה">>,  \* 'מסיבה'
    <<"א", "י", "ר", "ו", "ע">>,  \* 'אירוע'
    <<"ח", "ת", "ו", "נ", "ה">>,  \* 'חתונה'
    <<"ס", "ר", "ט">>,  \* 'סרט'
    <<"ק", "ו", "ל", "נ", "ו", "ע">>,  \* 'קולנוע'
    <<"ה", "צ", "ג", "ה">>,  \* 'הצגה'
    <<"ת", "י", "א", "ט", "ר", "ו", "ן">>,  \* 'תיאטרון'
    <<"ק", "ו", "נ", "צ", "ר", "ט">>,  \* 'קונצרט'
    <<"ס", "פ", "ו", "ר", "ט">>,  \* 'ספורט'
    <<"כ", "ו", "ש", "ר">>,  \* 'כושר'
    <<"ר", "י", "צ", "ה">>,  \* 'ריצה'
    <<"ש", "ח", "י", "י", "ה">>,  \* 'שחייה'
    <<"ט", "נ", "י", "ס">>,  \* 'טניס'
    <<"ק", "נ", "י", "ו", "ת">>,  \* 'קניות'
    <<"ש", "ו", "פ", "י", "נ", "ג">>,  \* 'שופינג'
    <<"ק", "נ", "י", "ו", "ן">>,  \* 'קניון'
    <<"ש", "ו", "ק">>,  \* 'שוק'
    <<"ט", "י", "ו", "ל">>,  \* 'טיול'
    <<"נ", "ס", "י", "ע", "ה">>,  \* 'נסיעה'
    <<"ח", "ו", "פ", "ש", "ה">>,  \* 'חופשה'
    <<"נ", "ו", "פ", "ש">>,  \* 'נופש'
    <<"d", "i", "n", "n", "e", "r">>,  \* 'dinner'
    <<"l", "u", "n", "c", "h">>,  \* 'lunch'
    <<"b", "r", "e", "a", "k", "f", "a", "s", "t">>,  \* 'breakfast'
    <<"m", "e", "a", "l">>,  \* 'meal'
    <<"c", "o", "f", "f", "e", "e">>,  \* 'coffee'
    <<"d", "r", "i", "n", "k">>,  \* 'drink'
    <<"d", "r", "i", "n", "k", "s">>,  \* 'drinks'
    <<"m", "e", "e", "t", "i", "n", "g">>,  \* 'meeting'
    <<"a", "p", "p", "o", "i", "n", "t", "m", "e", "n", "t">>,  \* 'appointment'
    <<"i", "n", "t", "e", "r", "v", "i", "e", "w">>,  \* 'interview'
    <<"b", "u", "s", "i", "n", "e", "s", "s", " ", "m", "e", "e", "t", "i", "n", "g">>,  \* 'business meeting'
    <<"b", "i", "r", "t", "h", "d", "a", "y">>,  \* 'birthday'
    <<"p", "a", "r", "t", "y">>,  \* 'party'
    <<"c", "e", "l", "e", "b", "r", "a", "t", "i", "o", "n">>,  \* 'celebration'
    <<"e", "v", "e", "n", "t">>,  \* 'event'
    <<"w", "e", "d", "d", "i", "n", "g">>,  \* 'wedding'
    <<"m", "o", "v", "i", "e">>,  \* 'movie'
    <<"c", "i", "n", "e", "m", "a">>,  \* 'cinema'
    <<"t", "h", "e", "a", "t", "e", "r">>,  \* 'theater'
    <<"s", "h", "o", "w">>,  \* 'show'
    <<"c", "o", "n", "c", "e", "r", "t">>,  \* 'concert'
    <<"s", "p", "o", "r", "t">>,  \* 'sport'
    <<"g", "y", "m">>,  \* 'gym'
    <<"w", "o", "r", "k", "o", "u", "t">>,  \* 'workout'
    <<"r", "u", "n", "n", "i", "n", "g">>,  \* 'running'
    <<"s", "w", "i", "m", "m", "i", "n", "g">>,  \* 'swimming'
    <<"t", "e", "n", "n", "i", "s">>,  \* 'tennis'
    <<"s", "h", "o", "p", "p", "i", "n", "g">>,  \* 'shopping'
    <<"m", "a", "l", "l">>,  \* 'mall'
    <<"m", "a", "r", "k", "e", "t">>,  \* 'market'
    <<"t", "r", "i", "p">>,  \* 'trip'
    <<"t", "r", "a", "v", "e", "l">>,  \* 'travel'
    <<"v", "a", "c", "a", "t", "i", "o", "n">>,  \* 'vacation'
    <<"h", "o", "l", "i", "d", "a", "y">>   \* 'holiday'
  >>

\* The letters of the class [א-ת].
AlefToTav ==
  { "א", "ב", "ג", "ד", "ה", "ו", "ז", "ח", "ט", "י", "ך", "כ", "ל", "ם", "מ", "ן", "נ", "ס", "ע", "ף", "פ", "ץ", "צ", "ק", "ר", "ש", "ת" }

\* A match of [A-Z][a-z]+ between two word boundaries.
IsCapitalizedWord(text, i, j) ==
  /\ i < j
  /\ text[i] \in UpperLetters
  /\ \A k \in (i + 1)..j : text[k] \in LowerLetters
  /\ i > 1 => text[i - 1] \notin WordChars
  /\ j < Len(text) => text[j + 1] \notin WordChars

\* text.match(/\b[A-Z][a-z]+(?:\s+[A-Z][a-z]+)*\b/g): the longest runs
\* of capitalized words that white space alone separates.
CapitalizedSequences(text) ==
  LET Blank(a, b) == a <= b /\ \A k \in a..b : text[k] = " "
      Run(i, j) ==
        /\ text[i] # " " /\ text[j] # " "
        /\ \A p \in i..j :
             (text[p] # " " /\ (p = i \/ text[p - 1] = " ")) =>
               \E e \in p..j : /\ IsCapitalizedWord(text, p, e)
                               /\ e = j \/ text[e + 1] = " "
      Longest(i, j) ==
        /\ ~\E p \in 1..(i - 1), e \in 1..(i - 1) :
              IsCapitalizedWord(text, p, e) /\ Blank(e + 1, i - 1)
        /\ ~\E p \in (j + 1)..Len(text), e \in (j + 1)..Len(text) :
              IsCapitalizedWord(text, p, e) /\ Blank(j + 1, p - 1)
  IN { SubSeq(text, i, j) : <<i, j>> \in
         { ij \in (1..Len(text)) \X (1..Len(text)) :
             ij[1] <= ij[2] /\ Run(ij[1], ij[2]) /\ Longest(ij[1], ij[2]) } }

\* text.match(/ב[א-ת]+|ל[א-ת]+/g): from the left, each ב or ל that a
\* Hebrew letter follows, with all the Hebrew letters after it.
RECURSIVE HebrewPlacesFrom(_, _)
HebrewPlacesFrom(text, i) ==
  IF i >= Len(text) THEN {}
  ELSE IF text[i] \in {"ב", "ל"} /\ text[i + 1] \in AlefToTav
  THEN LET last == CHOOSE j \in (i + 1)..Len(text) :
                     /\ \A k \in (i + 1)..j : text[k] \in AlefToTav
                     /\ j < Len(text) => text[j + 1] \notin AlefToTav
       IN {SubSeq(text, i, last)} \cup HebrewPlacesFrom(text, last + 1)
  ELSE HebrewPlacesFrom(text, i + 1)

\* extractPlaces: the venue types the text holds, its capitalized
\* sequences longer than three characters that are no Hebrew name, and
\* its Hebrew place indicators.
extractPlaces(text) ==
  { venueTypes[i] : i \in {j \in 1..Len(venueTypes) :
                             Includes(toLowerCase(text),
                                      toLowerCase(venueTypes[j]))} }
  \cup { m \in CapitalizedSequences(text) :
           /\ Len(m) > 3
           /\ \A i \in 1..Len(hebrewNames) : hebrewNames[i] # m }
  \cup HebrewPlacesFrom(text, 1)

\* extractActivities: the activity keywords the text holds.
extractActivities(text) ==
  { activityKeywords[i] : i \in {j \in 1..Len(activityKeywords) :
                                   Includes(toLowerCase(text),
                                            toLowerCase(activityKeywords[j]))} }

\* The sender names and the texts of the conversation.
NameMe == <<"M", "e">>

NameYahav == <<"Y", "a", "h", "a", "v">>

\* The messages of the group chat, in the order sent: 'יש על האש מחר?'
\* by the user, 'כן' and 'אם יהיה שינוי אעדכן' by Yahav, and, for
\* comparison, 'Yahav meeting tomorrow' by Yahav.  None holds a URL.
ChatMessages ==
  <<
    [ id |-> 1, isFromMe |-> TRUE, senderName |-> NameMe, urls |-> {},
      content |-> <<"י", "ש", " ", "ע", "ל", " ", "ה", "א", "ש", " ", "מ", "ח", "ר", "?">> ],
    [ id |-> 2, isFromMe |-> FALSE, senderName |-> NameYahav, urls |-> {},
      content |-> <<"כ", "ן">> ],
    [ id |-> 3, isFromMe |-> FALSE, senderName |-> NameYahav, urls |-> {},
      content |-> <<"א", "ם", " ", "י", "ה", "י", "ה", " ", "ש", "י", "נ", "ו", "י", " ", "א", "ע", "ד", "כ", "ן">> ],
    [ id |-> 4, isFromMe |-> FALSE, senderName |-> NameYahav, urls |-> {},
      content |-> <<"Y", "a", "h", "a", "v", " ", "m", "e", "e", "t", "i", "n", "g", " ", "t", "o", "m", "o", "r", "r", "o", "w">> ]
  >>

ConversationIds == {1, 2, 3}

\* The metadata LocalVectorStore.indexMessage keeps of a message sent on
\* a day.
LocalMetadata(msg, day) ==
  [ messageId |-> msg.id, senderName |-> msg.senderName,
    content |-> msg.content, timestamp |-> day, isFromMe |-> msg.isFromMe,
    deleted |-> FALSE ]

\* The metadata EnhancedVectorStore.indexMessage keeps of it; places and
\* activities are not read by the filter searchScheduling builds.
EnhancedMetadata(msg, day) ==
  [ messageId |-> msg.id, senderName |-> msg.senderName,
    content |-> msg.content, timestamp |-> day, isFromMe |-> msg.isFromMe,
    hasScheduling |-> detectSchedulingIntent(msg.content),
    hasUrls |-> msg.urls # {},
    entities |-> [ people |-> extractPeople(msg.content),
                   places |-> extractPlaces(msg.content),
                   activities |-> extractActivities(msg.content) ],
    deleted |-> FALSE ]

\* The entity test of EnhancedVectorStore.searchSimilar: the lists of an
\* entityFilter are its keys present; a list present, even empty, is
\* truthy.
EntityMatch(entityFilter, entities) ==
  \E key \in DOMAIN entityFilter :
    \E wanted \in entityFilter[key] :
      \E p \in entities[key] : Includes(toLowerCase(p), toLowerCase(wanted))

\* The filters searchSimilar applies to a candidate that is not deleted.
\* dateRange and entityFilter are sequences: empty for null.
PassesFilters(metadata, options) ==
  /\ options.senderFilter # <<>> =>
       Includes(toLowerCase(metadata.senderName),
                toLowerCase(options.senderFilter[1]))
  /\ options.dateRange # <<>> =>
       /\ metadata.timestamp >= options.dateRange[1].start
       /\ metadata.timestamp <= options.dateRange[1].end
  /\ options.includeUrls # <<>> => metadata.hasUrls = options.includeUrls[1]
  /\ options.schedulingFilter => metadata.hasScheduling
  /\ options.entityFilter # <<>> =>
       ( \/ EntityMatch(options.entityFilter[1], metadata.entities)
         \/ DOMAIN options.entityFilter[1] = {} )

\* chrono.parse of a time period: a date of the current week for 'this
\* week'.
chronoParsePeriod(timePeriod) ==
  IF timePeriod = "this week" THEN <<2>> ELSE chronoParse(timePeriod)

\* parseTimeRange of a time period: the one day of the parsed date.
parsePeriodRange(timePeriod) ==
  LET parsed == chronoParsePeriod(timePeriod)
  IN IF Len(parsed) = 0
     THEN <<>>
     ELSE <<[start |-> parsed[1], end |-> parsed[1]]>>

\* The ids of the found messages that satisfy a test.
FilterIds(found, Keep(_)) ==
  { found[i] : i \in {j \in 1..Len(found) : Keep(ChatMessages[found[j]])} }

\* The standalone server: searchSimilar of the local store, then the
\* filter on msg.sender_name, a field the results (senderName) do not
\* have, and on the English scheduling words in the content.
StandaloneFindSchedule(args, found, day) ==
  LET Keep(msg) ==
        LET result == LocalMetadata(msg, day)
            senderMatch ==
              /\ "sender_name" \in DOMAIN result
              /\ Includes(toLowerCase(result["sender_name"]),
                          toLowerCase(args.person_name))
            contentMatch ==
              \E i \in 1..Len(schedulingWords) :
                MatchesWord(result.content, schedulingWords[i])
        IN senderMatch /\ contentMatch
      schedulingMessages == FilterIds(found, Keep)
  IN ToolResult(IF schedulingMessages = {}
                THEN <<"No scheduling messages found">>
                ELSE <<"Found scheduling-related messages">>,
                schedulingMessages)

\* The enhanced server: searchScheduling, which is searchSimilar with
\* the scheduling filter, the parsed time range and the person as the
\* people of the entity filter.
EnhancedFindSchedule(args, found, day) ==
  LET options == [ senderFilter |-> <<>>,
                   includeUrls |-> <<>>,
                   schedulingFilter |-> TRUE,
                   dateRange |-> parsePeriodRange(args.time_period),
                   entityFilter |-> <<[people |-> {args.person_name}]>> ]
      Keep(msg) == PassesFilters(EnhancedMetadata(msg, day), options)
      results == FilterIds(found, Keep)
  IN ToolResult(IF results = {}
                THEN <<"No scheduling messages found">>
                ELSE <<"Found scheduling messages">>,
                results)

\* The Hebrew-aware server: it calls this.vectorStore.search, a method
\* LocalVectorStore does not have; the TypeError is thrown again with a
\* prefix and returned by the CallTool handler as a text.
HebrewFindSchedule(args, found, day) ==
  ToolResult(<<"Error", "Failed to find schedule",
               "this.vectorStore.search is not a function">>, {})

\* The sequences of ids, ascending, of the messages a vector search
\* returns.
RECURSIVE Ascending(_, _)
Ascending(S, n) ==
  IF n = 0 THEN <<>>
  ELSE IF n \in S THEN Append(Ascending(S, n - 1), n)
  ELSE Ascending(S, n - 1)

\* One find_schedule_with_person request to an initialized server whose
\* index holds the messages of the chat, all sent on one day; found are
\* the messages the similarity search returns.
InitSchedule ==
  /\ NoProcess
  /\ call \in
       [ op : {"find_schedule_with_person"},
         server : {"enhanced", "standalone", "hebrew"},
         args : [person_name : {NameYahav}, time_period : {"this week", "today"}],
         day : Days,
         found : {Ascending(S, Len(ChatMessages)) :
                    S \in SUBSET (1..Len(ChatMessages))},
         done : {FALSE},
         response : {NoToolResponse} ]

EnhancedFindScheduleWithPerson ==
  /\ call.op = "find_schedule_with_person"
  /\ call.server = "enhanced"
  /\ ~call.done
  /\ call' = [call EXCEPT
                !.done = TRUE,
                !.response = EnhancedFindSchedule(call.args, call.found, call.day)]
  /\ UNCHANGED <<store, disk, cleanup, messages, children, backfill,
                 response, revoked, dirty, rebuilt, saved>>

StandaloneFindScheduleWithPerson ==
  /\ call.op = "find_schedule_with_person"
  /\ call.server = "standalone"
  /\ ~call.done
  /\ call' = [call EXCEPT
                !.done = TRUE,
                !.response = StandaloneFindSchedule(call.args, call.found, call.day)]
  /\ UNCHANGED <<store, disk, cleanup, messages, children, backfill,
                 response, revoked, dirty, rebuilt, saved>>

HebrewFindScheduleWithPerson ==
  /\ call.op = "find_schedule_with_person"
  /\ call.server = "hebrew"
  /\ ~call.done
  /\ call' = [call EXCEPT
                !.done = TRUE,
                !.response = HebrewFindSchedule(call.args, call.found, call.day)]
  /\ UNCHANGED <<store, disk, cleanup, messages, children, backfill,
                 response, revoked, dirty, rebuilt, saved>>

NextSchedule ==
  \/ EnhancedFindScheduleWithPerson
  \/ StandaloneFindScheduleWithPerson
  \/ HebrewFindScheduleWithPerson

SpecSchedule == InitSchedule /\ [][NextSchedule]_vars

\* C23: with the three messages of the conversation ingested, sent on
\* the day of the request and all returned by the similarity search,
\* find_schedule_with_person("Yahav", "this week") returns all three.
C23_ReturnsWholeConversation ==
  ( /\ call.op = "find_schedule_with_person"
    /\ call.done
    /\ call.args.time_period = "this week"
    /\ call.day = 2
    /\ \A id \in ConversationIds : \E i \in 1..Len(call.found) : call.found[i] = id )
  => ConversationIds \subseteq call.response.ids


\* ---------------------------------------------------------------------
\* search_messages with message_type.
\* ---------------------------------------------------------------------

\* The messages a search may return, and the ones the user sent.
TypedIds == {1, 2, 3}

SentByMe == {1, 2}

Limits == {1, 2}

\* A field of a JavaScript object is "true", "false" or, where the
\* object has no such field, "undefined".
Truthy(v) == v = "true"

FromMe(id) == IF id \in SentByMe THEN "true" ELSE "false"

\* What searchSimilar returns of the messages: {id, score, ...metadata},
\* the metadata with isFromMe; best score first.
TypedVectorResults ==
  { [ i \in 1..Len(ids) |->
        [ id |-> ids[i], score |-> 10 - i, isFromMe |-> FromMe(ids[i]) ] ] :
      ids \in {s \in SeqsUpTo(TypedIds, MaxResults) :
                 \A i \in 1..Len(s), j \in 1..Len(s) : s[i] = s[j] => i = j} }

\* What database.searchMessages returns of them: rows, with is_from_me.
TypedDbResults ==
  { [ i \in 1..Len(ids) |->
        [ id |-> ids[i], is_from_me |-> FromMe(ids[i]) ] ] :
      ids \in {s \in SeqsUpTo(TypedIds, MaxResults) :
                 \A i \in 1..Len(s), j \in 1..Len(s) : s[i] = s[j] => i = j} }

\* combineResults of the enhanced server, on the fields the filter and
\* the sort read: a vector result keeps its isFromMe and has no
\* is_from_me; {...existing, ...result} adds the row's is_from_me.
RECURSIVE CombineVector(_, _, _)
CombineVector(vectorResults, i, map) ==
  IF i > Len(vectorResults) THEN map
  ELSE CombineVector(vectorResults, i + 1,
         MapSet(map, [ id |-> vectorResults[i].id,
                       source |-> "vector",
                       relevanceScore |-> vectorResults[i].score,
                       isFromMe |-> vectorResults[i].isFromMe,
                       is_from_me |-> "undefined" ]))

RECURSIVE CombineDb(_, _, _)
CombineDb(dbResults, i, map) ==
  IF i > Len(dbResults) THEN map
  ELSE LET result == dbResults[i]
           found == {k \in 1..Len(map) : map[k].id = result.id}
           value == IF found # {}
                    THEN [ map[CHOOSE k \in found : TRUE] EXCEPT
                             !.is_from_me = result.is_from_me,
                             !.source = "both" ]
                    ELSE [ id |-> result.id,
                           source |-> "database",
                           relevanceScore |-> 0,
                           isFromMe |-> "undefined",
                           is_from_me |-> result.is_from_me ]
       IN CombineDb(dbResults, i + 1, MapSet(map, value))

combineResults(vectorResults, dbResults) ==
  SortByRelevance(
    CombineDb(dbResults, 1, CombineVector(vectorResults, 1, <<>>)), 1, <<>>)

\* Array.prototype.filter: the kept entries, in order.
FilterSeq(results, Keep(_)) ==
  LET kept == {i \in 1..Len(results) : Keep(results[i])}
  IN [ k \in 1..Cardinality(kept) |->
         results[CHOOSE i \in kept : Cardinality({j \in kept : j <= i}) = k] ]

\* filterByMessageType of the enhanced server: the test is on
\* msg.is_from_me.
filterByMessageType(results, messageType) ==
  LET Keep(msg) ==
        CASE messageType = "sent" -> Truthy(msg.is_from_me)
          [] messageType = "received" -> ~Truthy(msg.is_from_me)
          [] OTHER -> TRUE
  IN IF messageType = "all" THEN results ELSE FilterSeq(results, Keep)

\* handleSearchMessages of the enhanced server: the ids and sources of
\* the messages in its answer.
EnhancedSearchMessages(args, vectorResults, dbResults) ==
  filterByMessageType(combineResults(vectorResults, dbResults),
                      args.message_type)

\* handleSearchMessages of the standalone server: the vector results
\* filtered on result.isFromMe, cut to limit.
StandaloneSearchMessages(args, vectorResults) ==
  LET Sent(result) == Truthy(result.isFromMe)
      Received(result) == ~Truthy(result.isFromMe)
      filteredResults ==
        CASE args.message_type = "sent" -> FilterSeq(vectorResults, Sent)
          [] args.message_type = "received" -> FilterSeq(vectorResults, Received)
          [] OTHER -> vectorResults
      limited == SubSeq(filteredResults, 1, Min(args.limit, Len(filteredResults)))
  IN [ i \in 1..Len(limited) |->
         [ id |-> limited[i].id, source |-> "vector",
           relevanceScore |-> limited[i].score,
           isFromMe |-> limited[i].isFromMe, is_from_me |-> "undefined" ] ]

\* One search_messages request to an initialized server; the lists are
\* what its two searches return.
InitTyped ==
  /\ NoProcess
  /\ call \in
       [ op : {"search_messages"},
         server : {"enhanced", "standalone"},
         args : [message_type : {"all", "sent", "received"}, limit : Limits],
         vectorResults : TypedVectorResults,
         dbResults : TypedDbResults,
         done : {FALSE},
         results : {<<>>} ]

EnhancedHandleSearchMessages ==
  /\ call.op = "search_messages"
  /\ call.server = "enhanced"
  /\ ~call.done
  /\ call' = [call EXCEPT
                !.done = TRUE,
                !.results = EnhancedSearchMessages(call.args, call.vectorResults,
                                                   call.dbResults)]
  /\ UNCHANGED <<store, disk, cleanup, messages, children, backfill,
                 response, revoked, dirty, rebuilt, saved>>

StandaloneHandleSearchMessages ==
  /\ call.op = "search_messages"
  /\ call.server = "standalone"
  /\ ~call.done
  /\ call' = [call EXCEPT
                !.done = TRUE,
                !.results = StandaloneSearchMessages(call.args, call.vectorResults)]
  /\ UNCHANGED <<store, disk, cleanup, messages, children, backfill,
                 response, revoked, dirty, rebuilt, saved>>

NextTyped ==
  \/ EnhancedHandleSearchMessages
  \/ StandaloneHandleSearchMessages

SpecTyped == InitTyped /\ [][NextTyped]_vars

\* C24: search_messages with message_type sent returns only messages
\* the user sent, with message_type received only messages the user did
\* not send, from whichever search each result came.
C24_TypeFilterHolds ==
  (call.op = "search_messages" /\ call.done) =>
    \A i \in 1..Len(call.results) :
      /\ call.args.message_type = "sent" => call.results[i].id \in SentByMe
      /\ call.args.message_type = "received" => call.results[i].id \notin SentByMe


\* ---------------------------------------------------------------------
\* Database.findPersonInAllChats.
\* ---------------------------------------------------------------------

\* Ids of the rows of messages; a row's timestamp is its id.
PersonRowIds == {1, 2, 3}

PersonLimits == {1, 2, 3}

NameDana == <<"D", "a", "n", "a">>

NameFamily == <<"F", "a", "m", "i", "l", "y">>

TextHello == <<"h", "e", "l", "l", "o">>

TextAskYahav == <<"a", "s", "k", " ", "y", "a", "h", "a", "v">>

\* The rows a message may have: who sent it, what it says, the name of
\* its chat and whether the chat is a group.
PersonRows ==
  [ sender_name : {NameYahav, NameDana},
    content : {TextHello, TextAskYahav},
    chat_name : {NameYahav, NameFamily},
    is_group_message : BOOLEAN ]

\* The tables messages may be: a row for some of the ids.
PersonTables ==
  UNION { [S -> PersonRows] : S \in SUBSET PersonRowIds }

\* value LIKE '%name%' of SQLite: the name at any place, letters of
\* either case.
Like(value, name) == Includes(toLowerCase(value), toLowerCase(name))

\* The ids of a set, latest first (ORDER BY m.timestamp DESC), cut to
\* limit (LIMIT ?).
RECURSIVE LatestFirst(_, _)
LatestFirst(S, limit) ==
  IF S = {} \/ limit = 0 THEN <<>>
  ELSE LET latest == CHOOSE id \in S : \A other \in S : other <= id
       IN <<latest>> \o LatestFirst(S \ {latest}, limit - 1)

\* A findPersonInAllChats that looks at the sender only.
findPersonBySenderOnly(rows, personName, limit) ==
  LatestFirst({ id \in DOMAIN rows : Like(rows[id].sender_name, personName) },
              limit)

\* findPersonInAllChats(personName, null, limit): the ids of the rows it
\* resolves with.
findPersonInAllChats(rows, personName, limit) ==
  LatestFirst({ id \in DOMAIN rows :
                  \/ Like(rows[id].sender_name, personName)
                  \/ Like(rows[id].content, personName)
                  \/ Like(rows[id].chat_name, personName) },
              limit)

\* One call of findPersonInAllChats with no date range.
InitPerson ==
  /\ NoProcess
  /\ call \in
       [ op : {"findPersonInAllChats"},
         rows : PersonTables,
         personName : {NameYahav},
         limit : PersonLimits,
         done : {FALSE},
         results : {<<>>} ]

FindPersonInAllChats ==
  /\ call.op = "findPersonInAllChats"
  /\ ~call.done
  /\ call' = [call EXCEPT
                !.done = TRUE,
                !.results = findPersonInAllChats(call.rows, call.personName,
                                                 call.limit)]
  /\ UNCHANGED <<store, disk, cleanup, messages, children, backfill,
                 response, revoked, dirty, rebuilt, saved>>

NextPerson == FindPersonInAllChats

SpecPerson == InitPerson /\ [][NextPerson]_vars

\* The row is of an individual chat and its sender is the person.
SentByPerson(row, name) ==
  ~row.is_group_message /\ row.sender_name = name

\* The row is of a group chat, its content mentions the person and its
\* sender is someone else.
MentionedInGroup(row, name) ==
  /\ row.is_group_message
  /\ Like(row.content, name)
  /\ row.sender_name # name

\* The rows that name the person in the sender, the content or the
\* chat name.
Naming(rows, name) ==
  { id \in DOMAIN rows :
      \E field \in {"sender_name", "content", "chat_name"} :
        Like(rows[id][field], name) }

Returned(id) == \E i \in 1..Len(call.results) : call.results[i] = id

\* C25 as stated: given an individual-chat message sent by X and a
\* group-chat message that mentions X and was sent by someone else,
\* findPersonInAllChats(X, null, limit) with limit >= 2 returns both.
C25_ReturnsBothWithinLimit ==
  (call.op = "findPersonInAllChats" /\ call.done /\ call.limit >= 2) =>
    \A a \in DOMAIN call.rows, b \in DOMAIN call.rows :
      ( /\ SentByPerson(call.rows[a], call.personName)
        /\ MentionedInGroup(call.rows[b], call.personName) )
      => Returned(a) /\ Returned(b)

\* C25, amended: the search scans individual and group chats alike and
\* matches the name against sender, content or chat name: when no more
\* than limit rows name X, the individual-chat message sent by X and the
\* group-chat message that mentions X are both returned.
C25_ReturnsBothWhenAllFit ==
  ( /\ call.op = "findPersonInAllChats"
    /\ call.done
    /\ Cardinality(Naming(call.rows, call.personName)) <= call.limit ) =>
    \A a \in DOMAIN call.rows, b \in DOMAIN call.rows :
      ( /\ SentByPerson(call.rows[a], call.personName)
        /\ MentionedInGroup(call.rows[b], call.personName) )
      => Returned(a) /\ Returned(b)

\* C25, reached: a call has returned an individual-chat message sent by
\* X together with a group-chat message of someone else that mentions X.
C25_BothKindsReturned ==
  /\ call.op = "findPersonInAllChats"
  /\ call.done
  /\ \E a \in DOMAIN call.rows, b \in DOMAIN call.rows :
       /\ SentByPerson(call.rows[a], call.personName)
       /\ MentionedInGroup(call.rows[b], call.personName)
       /\ Returned(a)
       /\ Returned(b)


\* ---------------------------------------------------------------------
\* WhatsAppBackfillScript.fetchChatMessages.
\* ---------------------------------------------------------------------

\* options.maxMessagesPerChat, and the most messages one fetch is asked
\* for (50 in the script).
MaxMessagesPerChat == 3

MaxBatch == 2

\* The messages of the chat: the first is older than startDate, the
\* last is later than endDate, the others are in the range.
FetchIds == {1, 2, 3, 4, 5}

IsOlder(id) == id = 1

InRange(id) == id \in {2, 3, 4}

\* fetchChatMessages at the head of its while loop.
FetchStart ==
  [ op |-> "fetchChatMessages", pc |-> "loop", messages |-> <<>>,
    seenMessageIds |-> {}, lastMessageId |-> 0,
    consecutiveEmptyBatches |-> 0 ]

\* The batches chat.fetchMessages({limit}) may resolve with: up to limit
\* messages of the chat, any of them, in any order.
Batches(limit) ==
  { b \in SeqsUpTo(FetchIds, limit) :
      \A i \in 1..Len(b), j \in 1..Len(b) : b[i] = b[j] => i = j }

\* The for loop over a batch from entry i on: the ids seen, the new
\* messages in range, and whether a message older than startDate
\* stopped it.
RECURSIVE ScanBatch(_, _, _, _)
ScanBatch(batch, i, seen, newMessages) ==
  IF i > Len(batch)
  THEN [seen |-> seen, newMessages |-> newMessages, foundOlderMessage |-> FALSE]
  ELSE IF batch[i] \in seen
  THEN ScanBatch(batch, i + 1, seen, newMessages)
  ELSE IF IsOlder(batch[i])
  THEN [ seen |-> seen \cup {batch[i]}, newMessages |-> newMessages,
         foundOlderMessage |-> TRUE ]
  ELSE ScanBatch(batch, i + 1, seen \cup {batch[i]},
                 IF InRange(batch[i]) THEN Append(newMessages, batch[i])
                 ELSE newMessages)

InitFetch ==
  /\ NoProcess
  /\ call = FetchStart

\* One turn of the while loop in which chat.fetchMessages resolves.
FetchBatch(batch) ==
  /\ call.op = "fetchChatMessages"
  /\ call.pc = "loop"
  /\ Len(call.messages) < MaxMessagesPerChat
  /\ batch \in Batches(Min(MaxBatch, MaxMessagesPerChat - Len(call.messages)))
  /\ IF Len(batch) = 0
     THEN call' = [call EXCEPT
                     !.consecutiveEmptyBatches = @ + 1,
                     !.pc = IF call.consecutiveEmptyBatches + 1 >= 3
                            THEN "done" ELSE "loop"]
     ELSE LET scan == ScanBatch(batch, 1, call.seenMessageIds, <<>>)
              currentLastId == batch[Len(batch)]
          IN call' = [call EXCEPT
                        !.consecutiveEmptyBatches = 0,
                        !.seenMessageIds = scan.seen,
                        !.messages = call.messages \o scan.newMessages,
                        !.lastMessageId =
                           IF scan.foundOlderMessage THEN @ ELSE currentLastId,
                        !.pc = IF \/ scan.foundOlderMessage
                                  \/ call.lastMessageId = currentLastId
                               THEN "done" ELSE "loop"]
  /\ UNCHANGED <<store, disk, cleanup, messages, children, backfill,
                 response, revoked, dirty, rebuilt, saved>>

\* One turn in which chat.fetchMessages rejects: the catch block ends
\* the loop.
FetchThrows ==
  /\ call.op = "fetchChatMessages"
  /\ call.pc = "loop"
  /\ Len(call.messages) < MaxMessagesPerChat
  /\ call' = [call EXCEPT !.pc = "done"]
  /\ UNCHANGED <<store, disk, cleanup, messages, children, backfill,
                 response, revoked, dirty, rebuilt, saved>>

\* The while condition fails on messages.length.
FetchFull ==
  /\ call.op = "fetchChatMessages"
  /\ call.pc = "loop"
  /\ Len(call.messages) >= MaxMessagesPerChat
  /\ call' = [call EXCEPT !.pc = "done"]
  /\ UNCHANGED <<store, disk, cleanup, messages, children, backfill,
                 response, revoked, dirty, rebuilt, saved>>

NextFetch ==
  \/ \E batch \in Batches(MaxBatch) : FetchBatch(batch)
  \/ FetchThrows
  \/ FetchFull

\* The loop never stops of itself: a turn that can be taken is taken.
SpecFetch == InitFetch /\ [][NextFetch]_vars /\ WF_vars(NextFetch)

FetchDone == call.op = "fetchChatMessages" /\ call.pc = "done"

\* C26: fetchChatMessages terminates, whatever batches
\* chat.fetchMessages returns: the pagination loop is left after
\* finitely many fetches.
C26_FetchTerminates == <>FetchDone


\* ---------------------------------------------------------------------
\* WhatsAppListener: the client's connection and shutdown().
\* ---------------------------------------------------------------------

\* The most reconnect timers pending at once, and the most calls of
\* client.initialize() followed.
MaxTimers == 2

MaxInitializes == 3

\* The most messages the listener handles.
MaxHandled == 2

\* The listener after its constructor: client is the state of the
\* WhatsApp client, timers the reconnect timers set and not yet fired,
\* shutdown the position of shutdown() and of the signal handler around
\* it, initializes the calls of client.initialize() so far, handled the
\* messages handleMessage has saved and indexed.
ListenerStart ==
  [ op |-> "listener", client |-> "new", isReady |-> FALSE,
    isShuttingDown |-> FALSE, timers |-> 0, shutdown |-> "none",
    initializes |-> 0, handled |-> 0 ]

InitListener ==
  /\ NoProcess
  /\ call = ListenerStart

\* initialize(): the handlers are set up and client.initialize() is
\* called.
ListenerInitialize ==
  /\ call.op = "listener"
  /\ call.client = "new"
  /\ call.shutdown = "none"
  /\ call' = [call EXCEPT !.client = "initializing",
                          !.initializes = @ + 1]
  /\ UNCHANGED <<store, disk, cleanup, messages, children, backfill,
                 response, revoked, dirty, rebuilt, saved>>

\* The 'ready' event.
ClientReady ==
  /\ call.op = "listener"
  /\ call.client = "initializing"
  /\ call.shutdown # "exited"
  /\ call' = [call EXCEPT !.client = "ready", !.isReady = TRUE]
  /\ UNCHANGED <<store, disk, cleanup, messages, children, backfill,
                 response, revoked, dirty, rebuilt, saved>>

\* The 'disconnected' event: a reconnect in five seconds unless
\* shutdown() has begun.
ClientDisconnected ==
  /\ call.op = "listener"
  /\ call.client \in {"initializing", "ready"}
  /\ call.shutdown # "exited"
  /\ call.isShuttingDown \/ call.timers < MaxTimers
  /\ call' = [call EXCEPT
                !.client = "disconnected",
                !.isReady = FALSE,
                !.timers = IF call.isShuttingDown THEN @ ELSE @ + 1]
  /\ UNCHANGED <<store, disk, cleanup, messages, children, backfill,
                 response, revoked, dirty, rebuilt, saved>>

\* A reconnect timer fires: its callback calls client.initialize().
ReconnectTimer ==
  /\ call.op = "listener"
  /\ call.timers > 0
  /\ call.shutdown # "exited"
  /\ call.initializes < MaxInitializes
  /\ call' = [call EXCEPT !.timers = @ - 1,
                          !.client = "initializing",
                          !.initializes = @ + 1]
  /\ UNCHANGED <<store, disk, cleanup, messages, children, backfill,
                 response, revoked, dirty, rebuilt, saved>>

\* SIGINT or SIGTERM: shutdown() sets isShuttingDown and awaits
\* client.destroy().
ShutdownBegin ==
  /\ call.op = "listener"
  /\ call.client # "new"
  /\ call.shutdown = "none"
  /\ call' = [call EXCEPT !.isShuttingDown = TRUE, !.shutdown = "destroy"]
  /\ UNCHANGED <<store, disk, cleanup, messages, children, backfill,
                 response, revoked, dirty, rebuilt, saved>>

\* The 'message' and 'message_create' events: handleMessage returns at
\* once unless isReady, and otherwise saves and indexes the message.
ClientMessage ==
  /\ call.op = "listener"
  /\ call.client \in {"initializing", "ready"}
  /\ call.shutdown # "exited"
  /\ call.handled < MaxHandled
  /\ call' = [call EXCEPT !.handled = IF call.isReady THEN @ + 1 ELSE @]
  /\ UNCHANGED <<store, disk, cleanup, messages, children, backfill,
                 response, revoked, dirty, rebuilt, saved>>

\* client.destroy() has resolved, and database.close() is awaited; or
\* it has rejected, and shutdown() returns from its catch.
ShutdownDestroyed ==
  /\ call.op = "listener"
  /\ call.shutdown = "destroy"
  /\ \E rejected \in BOOLEAN :
       call' = [call EXCEPT
                  !.client = IF rejected THEN @ ELSE "destroyed",
                  !.shutdown = IF rejected THEN "done" ELSE "close"]
  /\ UNCHANGED <<store, disk, cleanup, messages, children, backfill,
                 response, revoked, dirty, rebuilt, saved>>

\* database.close() has resolved or rejected: shutdown() returns.
ShutdownClosed ==
  /\ call.op = "listener"
  /\ call.shutdown = "close"
  /\ call' = [call EXCEPT !.shutdown = "done"]
  /\ UNCHANGED <<store, disk, cleanup, messages, children, backfill,
                 response, revoked, dirty, rebuilt, saved>>

\* shutdown() has returned and the signal handler calls process.exit:
\* timers still pending are gone.
ShutdownExit ==
  /\ call.op = "listener"
  /\ call.shutdown = "done"
  /\ call' = [call EXCEPT !.shutdown = "exited", !.timers = 0]
  /\ UNCHANGED <<store, disk, cleanup, messages, children, backfill,
                 response, revoked, dirty, rebuilt, saved>>

NextListener ==
  \/ ListenerInitialize
  \/ ClientReady
  \/ ClientDisconnected
  \/ ReconnectTimer
  \/ ShutdownBegin
  \/ ClientMessage
  \/ ShutdownDestroyed
  \/ ShutdownClosed
  \/ ShutdownExit

SpecListener == InitListener /\ [][NextListener]_vars

\* C27: once shutdown() has set isShuttingDown, client.initialize() is
\* not called again, not even by a reconnect timer set before.
C27_NoInitializeAfterShutdown ==
  [][(call.op = "listener" /\ call.isShuttingDown)
       => call'.initializes = call.initializes]_vars


\* C28: when handleMessage has finished for a message, with or without
\* an error, the message has a row in the messages table exactly when
\* it has a live record in the listener's vector metadata.
C28_StoresAgreeAfterHandling ==
  [][\A id \in Ids, c \in Contents, fail \in HandleFailures :
       HandleMessage(id, c, fail) =>
         ( messageExists(messages', id)
             <=> LiveCopies(store'["listener"].metadata, id) # {} )]_vars


\* ---------------------------------------------------------------------
\* searchSimilar over a store with soft-deleted entries.
\* ---------------------------------------------------------------------

\* Most entries of the store that is searched.
MaxSearchLen == 5

\* The entries searchSimilar may return for q: not deleted, with a score
\* that reaches the threshold.
Qualifying(st, q) ==
  {i \in 1..Len(st.metadata) :
     /\ ~st.metadata[i].deleted
     /\ InnerProduct(q, st.index[i]) >= Threshold}

\* The listener's store under searches: messages of any text arrive in
\* the order of their ids, at most ScenarioDeletes of them are revoked,
\* and searchSimilar is called at any moment.
NextSearch ==
  \/ Initialize("listener", FALSE)
  \/ \E id \in ScenarioIds, c \in Contents :
       /\ Len(store["listener"].metadata) < MaxSearchLen
       /\ \A k \in ScenarioIds : messageExists(messages, k) <=> k < id
       /\ HandleMessage(id, c, "none")
  \/ \E id \in ScenarioIds :
       /\ messageExists(messages, id)
       /\ id \notin revoked
       /\ Cardinality(revoked) < ScenarioDeletes
       /\ MessageRevoke(id)
  \/ \E q \in Contents, topK \in TopKs : Search(q, topK)

SpecSearch == Init /\ [][NextSearch]_vars

\* C29: when at least topK entries of the store are not deleted and
\* reach the threshold, searchSimilar returns exactly topK results,
\* however many deleted entries the store holds.
C29_ReturnsTopKWhenEnoughQualify ==
  [][\A q \in Contents, topK \in TopKs :
       ( /\ Search(q, topK)
         /\ Cardinality(Qualifying(store["listener"], q)) >= topK )
       => Len(response'.results) = topK]_vars


\* ---------------------------------------------------------------------
\* The vector search of search_messages: processSearchQuery of the
\* enhanced message processor and the filters of searchSimilar.
\* ---------------------------------------------------------------------

\* The alternatives of /(?:from|by|sent by|מאת|של)\s+(\w+)/i, in order.
senderPrefixes ==
  <<
    <<"f", "r", "o", "m">>,
    <<"b", "y">>,
    <<"s", "e", "n", "t", " ", "b", "y">>,
    <<"מ", "א", "ת">>,
    <<"ש", "ל">>
  >>

\* The match of the sender pattern that starts at position i with the
\* alternative pre, as a sequence: empty when there is none.
SenderMatchAt(text, i, pre) ==
  LET e == i + Len(pre) - 1
  IN IF e < Len(text) /\ toLowerCase(SubSeq(text, i, e)) = pre
        /\ text[e + 1] = " "
     THEN LET s == CHOOSE j \in (e + 1)..Len(text) :
                     /\ \A k \in (e + 1)..j : text[k] = " "
                     /\ j < Len(text) => text[j + 1] # " "
          IN IF s < Len(text) /\ text[s + 1] \in WordChars
             THEN LET w == CHOOSE j \in (s + 1)..Len(text) :
                             /\ \A k \in (s + 1)..j : text[k] \in WordChars
                             /\ j < Len(text) => text[j + 1] \notin WordChars
                  IN <<[ from |-> i, to |-> w,
                         word |-> SubSeq(text, s + 1, w) ]>>
             ELSE <<>>
     ELSE <<>>

\* query.match of the sender pattern: the leftmost match, and at one
\* position the first alternative that matches.
senderMatch(text) ==
  LET Hits == { ip \in (1..Len(text)) \X (1..Len(senderPrefixes)) :
                  SenderMatchAt(text, ip[1], senderPrefixes[ip[2]]) # <<>> }
  IN IF Hits = {} THEN <<>>
     ELSE LET first == CHOOSE ip \in Hits :
                         \A other \in Hits :
                           \/ ip[1] < other[1]
                           \/ ip[1] = other[1] /\ ip[2] <= other[2]
          IN SenderMatchAt(text, first[1], senderPrefixes[first[2]])

\* String.prototype.trim
Trim(text) ==
  IF \A k \in 1..Len(text) : text[k] = " " THEN <<>>
  ELSE LET a == CHOOSE i \in 1..Len(text) :
                  text[i] # " " /\ \A k \in 1..(i - 1) : text[k] = " "
           b == CHOOSE j \in 1..Len(text) :
                  text[j] # " " /\ \A k \in (j + 1)..Len(text) : text[k] = " "
       IN SubSeq(text, a, b)

\* query.replace(match, '').trim() for the match at from..to.
RemoveMatch(text, from, to) ==
  Trim(SubSeq(text, 1, from - 1) \o SubSeq(text, to + 1, Len(text)))

\* The day chrono gives each of chronoPhrases, on the day numbered 2.
chronoDays == <<1, 2, 3, 2>>

\* chrono.parse(query)[0]: the leftmost date phrase of the text.
firstDate(text) ==
  LET lower == toLowerCase(text)
      Hits == { ip \in (1..Len(text)) \X (1..Len(chronoPhrases)) :
                  /\ ip[1] + Len(chronoPhrases[ip[2]]) - 1 <= Len(text)
                  /\ SubSeq(lower, ip[1], ip[1] + Len(chronoPhrases[ip[2]]) - 1)
                       = chronoPhrases[ip[2]] }
  IN IF Hits = {} THEN <<>>
     ELSE LET first == CHOOSE ip \in Hits : \A other \in Hits : ip[1] <= other[1]
          IN <<[ from |-> first[1],
                 to |-> first[1] + Len(chronoPhrases[first[2]]) - 1,
                 day |-> chronoDays[first[2]] ]>>

\* The words that make a query one about URLs.
urlWords ==
  <<
    <<"u", "r", "l">>,
    <<"l", "i", "n", "k">>,
    <<"ק", "י", "ש", "ו", "ר">>
  >>

\* extractEntities: the lists searchSimilar reads of it.
extractEntities(text) ==
  [ people |-> extractPeople(text),
    places |-> extractPlaces(text),
    activities |-> extractActivities(text) ]

\* processSearchQuery of the enhanced message processor: the entities
\* of the whole query, then the sender phrase and the date phrase, each
\* cut out of the query before the next test reads it.
enhancedProcessSearchQuery(query) ==
  LET sender == senderMatch(query)
      afterSender == IF sender = <<>> THEN query
                     ELSE RemoveMatch(query, sender[1].from, sender[1].to)
      date == firstDate(afterSender)
      afterDate == IF date = <<>> THEN afterSender
                   ELSE RemoveMatch(afterSender, date[1].from, date[1].to)
  IN [ entities |-> extractEntities(query),
       senderFilter |-> IF sender = <<>> THEN <<>> ELSE <<sender[1].word>>,
       dateRange |-> IF date = <<>> THEN <<>>
                     ELSE <<[start |-> date[1].day, end |-> date[1].day]>>,
       urlFilter |-> \E i \in 1..Len(urlWords) :
                       Includes(toLowerCase(afterDate), urlWords[i]),
       schedulingFilter |-> detectSchedulingIntent(afterDate),
       cleanQuery |-> afterDate ]

\* The options handleSearchMessages passes to searchSimilar.
searchOptions(query) ==
  LET processedQuery == enhancedProcessSearchQuery(query)
  IN [ senderFilter |-> processedQuery.senderFilter,
       dateRange |-> processedQuery.dateRange,
       includeUrls |-> IF processedQuery.urlFilter THEN <<TRUE>> ELSE <<>>,
       schedulingFilter |-> processedQuery.schedulingFilter,
       entityFilter |-> <<processedQuery.entities>> ]

\* The loop of EnhancedVectorStore.searchSimilar over the labels found:
\* the candidates that pass the filters, until topK of them are there.
filteredSearch(found, options, topK, day) ==
  LET Keep(id) == PassesFilters(EnhancedMetadata(ChatMessages[id], day), options)
      kept == FilterSeq(found, Keep)
  IN SubSeq(kept, 1, Min(topK, Len(kept)))

\* The queries explored: 'hello', 'כן', 'Yahav', 'coffee from Yahav'
\* and 'link today'.
SearchQueries ==
  {
    <<"h", "e", "l", "l", "o">>,
    <<"כ", "ן">>,
    <<"Y", "a", "h", "a", "v">>,
    <<"c", "o", "f", "f", "e", "e", " ", "f", "r", "o", "m", " ", "Y", "a", "h", "a", "v">>,
    <<"l", "i", "n", "k", " ", "t", "o", "d", "a", "y">>
  }

\* One searchSimilar call of handleSearchMessages on an initialized
\* store that holds the messages of the chat, all sent on one day; found
\* are the labels the index returns for the query.
InitEntity ==
  /\ NoProcess
  /\ call \in
       [ op : {"searchSimilar"},
         query : SearchQueries,
         topK : {1, DefaultTopK},
         day : Days,
         found : {Ascending(S, Len(ChatMessages)) :
                    S \in SUBSET (1..Len(ChatMessages))},
         done : {FALSE},
         results : {<<>>} ]

SearchSimilarWithEntities ==
  /\ call.op = "searchSimilar"
  /\ ~call.done
  /\ call' = [call EXCEPT
                !.done = TRUE,
                !.results = filteredSearch(call.found, searchOptions(call.query),
                                           call.topK, call.day)]
  /\ UNCHANGED <<store, disk, cleanup, messages, children, backfill,
                 response, revoked, dirty, rebuilt, saved>>

NextEntity == SearchSimilarWithEntities

SpecEntity == InitEntity /\ [][NextEntity]_vars

\* The query names no person, no place and no activity.
NoEntities(query) ==
  LET entities == enhancedProcessSearchQuery(query).entities
  IN entities.people = {} /\ entities.places = {} /\ entities.activities = {}

\* C30: when the people, places and activities of the processed query
\* are all empty, searchSimilar returns what it returns without an
\* entity filter: no candidate is left out because of its entities.
C30_EmptyEntitiesExcludeNothing ==
  (call.op = "searchSimilar" /\ call.done /\ NoEntities(call.query)) =>
    call.results =
      filteredSearch(call.found,
                     [searchOptions(call.query) EXCEPT !.entityFilter = <<>>],
                     call.topK, call.day)



====
